---- MODULE Spec2Model ----
(***************************************************************************)
(* ollamao: an OpenAI-style chat-completion gateway in front of Ollama     *)
(* backends.  The model follows src/src/ollamao: auth.py (APIKeyAuth),     *)
(* config.py (ConfigManager), models.py (request validation),              *)
(* ollama_client.py (OllamaClient) and router.py (the endpoints and the    *)
(* streaming transcoder).                                                  *)
(*                                                                         *)
(* Two inbound requests are handled as independent asyncio tasks.  A step  *)
(* of the model is what one task does between two suspension points: an    *)
(* await on the backend (connect, response, next line) or a yield of the   *)
(* streaming generator to the transport.  The backend and the caller are   *)
(* the environment: what the backend answers and whether the caller        *)
(* disconnects are drawn with \E inside the step that observes them.       *)
(*                                                                         *)
(* The key table is the loaded keys.yaml.  The route table is read through  *)
(* ConfigManager.load_models, which keeps the first load in its cache; the *)
(* branches that only a failing file load can reach are not modelled.      *)
(*                                                                         *)
(* The specifications share the actions: Spec (concurrent requests,        *)
(* models.yaml as deployed), WideSpec (one call, with generation           *)
(* parameters, extra keywords, null messages and an empty closing line),   *)
(* WideFairSpec (WideSpec with the event loop running the finalizers),     *)
(* ConfigSpec (concurrent requests while models.yaml is edited) and        *)
(* RouteSpec (concurrent requests over routes that share a backend model). *)
(***************************************************************************)
EXTENDS Integers, Sequences, FiniteSets, TLC

\* ------------------------------------------------------------ bounds
\* Backend lines one stream may deliver before the model stops drawing more.
MaxLines == 3
\* Further done=true lines the (malformed) backend may send after the first one.
MaxLate == 1

\* ------------------------------------------------------------ tasks
Reqs == {"r1", "r2"}

\* ------------------------------------------------------------ Optional[T]
None == <<>>
Some(x) == <<x>>

\* ------------------------------------------------------------ config.py
\* keys.yaml as loaded by ConfigManager.load_keys: presented value -> APIKeyConfig.
KeyTable ==
    [k \in {"sk-good", "sk-off"} |->
        [name |-> IF k = "sk-good" THEN "alice" ELSE "bob",
         quota |-> "unlimited",
         enabled |-> (k = "sk-good")]]

\* ModelConfig: port and model are required, the other fields default.
ModelConfig(port, model) ==
    [port |-> port, model |-> model, host |-> "localhost",
     timeout |-> 30, max_retries |-> 3]

\* The models of models.yaml as first deployed: model name -> ModelConfig.
ModelTable ==
    [m \in {"llama3", "mistral"} |->
        IF m = "llama3" THEN ModelConfig(11434, "llama3:8b")
        ELSE ModelConfig(11435, "mistral:7b")]

\* The order of the names in the file, which is the order of the loaded dict.
ModelOrder == <<"llama3", "mistral">>

\* A models dict: the keys in insertion order and the value of each key.
ModelsYaml == [keys |-> ModelOrder, table |-> ModelTable]

\* models.yaml after an operator edited it: mistral removed, phi3 added.
ModelsYamlEdited ==
    [keys |-> <<"llama3", "phi3">>,
     table |-> [m \in {"llama3", "phi3"} |->
                    IF m = "llama3" THEN ModelConfig(11434, "llama3:8b")
                    ELSE ModelConfig(11436, "phi3:mini")]]

\* A models.yaml whose routes differ in host, port, timeout and max_retries:
\* llama3 and llama3-gpu share the native identifier llama3:8b, llama3 and
\* mistral the port, llama3-gpu and mistral the host.
RoutesYaml ==
    [keys |-> <<"llama3", "llama3-gpu", "mistral">>,
     table |-> [m \in {"llama3", "llama3-gpu", "mistral"} |->
                    IF m = "llama3" THEN ModelConfig(11434, "llama3:8b")
                    ELSE IF m = "llama3-gpu"
                    THEN [ModelConfig(11500, "llama3:8b") EXCEPT
                            !.host = "gpu-1", !.timeout = 120, !.max_retries = 0]
                    ELSE [ModelConfig(11434, "mistral:7b") EXCEPT
                            !.host = "gpu-1", !.max_retries = 5]]]

VARIABLES
    models_file,        \* the models of models.yaml on disk
    _models_cache       \* ConfigManager._models_cache

config == <<models_file, _models_cache>>

\* ConfigManager.load_models(): the cached dict when there is one, else the
\* file's.  Every caller leaves the returned dict in the cache (cache_models).
load_models == IF _models_cache # None THEN _models_cache[1] ELSE models_file

cache_models == _models_cache' = Some(load_models)

\* ConfigManager.reload_config(): the next load reads the file again.
reload_config ==
    /\ _models_cache' = None
    /\ UNCHANGED models_file

get_api_key_config(api_key) ==
    IF api_key \in DOMAIN KeyTable THEN Some(KeyTable[api_key]) ELSE None

\* models.get(model_name): an exact, case-sensitive dictionary read.
get_model_config_any_case(model_name) ==
    LET lower == IF model_name = "Llama3" THEN "llama3" ELSE model_name
    IN  IF lower \in DOMAIN load_models.table
        THEN Some(load_models.table[lower]) ELSE None

get_model_config(model_name) ==
    IF model_name \in DOMAIN load_models.table
    THEN Some(load_models.table[model_name]) ELSE None

list_available_models == load_models.keys

\* str(n) of a port number.
RECURSIVE str_int(_)
str_int(n) ==
    IF n < 10 THEN SubSeq("0123456789", n + 1, n + 1)
    ELSE str_int(n \div 10) \o SubSeq("0123456789", (n % 10) + 1, (n % 10) + 1)

\* ConfigManager.get_ollama_url: f"http://{host}:{port}" of the route stored
\* under the requested name.
get_ollama_url_by_native(model_name) ==
    IF get_model_config(model_name) = None THEN None
    ELSE LET native == get_model_config(model_name)[1].model
             first == CHOOSE i \in 1..Len(load_models.keys) :
                        /\ load_models.table[load_models.keys[i]].model = native
                        /\ \A j \in 1..(i - 1) :
                              load_models.table[load_models.keys[j]].model # native
             model_config == load_models.table[load_models.keys[first]]
         IN  Some("http://" \o model_config.host \o ":" \o str_int(model_config.port))

get_ollama_url(model_name) ==
    IF get_model_config(model_name) = None THEN None
    ELSE LET model_config == get_model_config(model_name)[1]
         IN  Some("http://" \o model_config.host \o ":" \o str_int(model_config.port))

\* ------------------------------------------------------------ requests
\* No Authorization header (HTTPBearer(auto_error=False) yields None).
NoCred == "<no-credential>"

Credentials == {NoCred, "sk-good", "sk-off", "sk-zzz"}

RequestedModels == {"llama3", "Llama3", "gpt-x"}

MessageLists ==
    { <<>>,
      <<[role |-> "user", content |-> "hi"]>>,
      <<[role |-> "tool", content |-> "hi"]>> }

\* The optional fields of a request: the generation parameters, stop and user;
\* None is an absent field.  Decimal numbers are held in tenths (temperature
\* 0.5 is 5, a penalty of -2.0 is -20); max_tokens is an integer as it is.
NoParams ==
    [temperature |-> None, max_tokens |-> None, top_p |-> None,
     frequency_penalty |-> None, presence_penalty |-> None,
     stop |-> None, user |-> None]

\* A parsed inbound POST /v1/chat/completions.  kwargs is empty: the handlers
\* pass temperature and max_tokens and no other keyword to the client.
Requests ==
    [path : {"/v1/chat/completions"}, cred : Credentials, model : RequestedModels,
     messages : MessageLists, stream : BOOLEAN, params : {NoParams}, kwargs : {<<>>}]

\* An inbound GET /v1/models.
ModelsRequests ==
    [path : {"/v1/models"}, cred : Credentials, model : {""},
     messages : {<<>>}, stream : {FALSE}, params : {NoParams}, kwargs : {<<>>}]

\* An inbound GET /health, with or without a credential: the endpoint has no
\* dependency that reads it.
HealthRequests ==
    [path : {"/health"}, cred : Credentials, model : {""},
     messages : {<<>>}, stream : {FALSE}, params : {NoParams}, kwargs : {<<>>}]

NoReq ==
    [path |-> "", cred |-> NoCred, model |-> "", messages |-> <<>>, stream |-> FALSE,
     params |-> NoParams, kwargs |-> <<>>]

\* Values a caller may put in the numeric fields: below, on and above the
\* bounds, and inside them.
TemperatureValues == {-1, 0, 5, 10, 11}
MaxTokensValues == {-1, 0, 1, 4}
PenaltyValues == {-21, -20, 0, 20, 21}

\* An authenticated request for a configured model, the base of ParamRequests.
PlainRequest ==
    [path |-> "/v1/chat/completions", cred |-> "sk-good", model |-> "llama3",
     messages |-> <<[role |-> "system", content |-> "be brief"],
                    [role |-> "user", content |-> "hi"]>>,
     stream |-> FALSE, params |-> NoParams, kwargs |-> <<>>]

\* The parameter settings drawn: every numeric field alone with each of its
\* values, and temperature together with max_tokens.
ParamSettings ==
    {[NoParams EXCEPT !.temperature = Some(t)] : t \in TemperatureValues}
    \cup {[NoParams EXCEPT !.max_tokens = Some(m)] : m \in MaxTokensValues}
    \cup {[NoParams EXCEPT !.top_p = Some(t)] : t \in TemperatureValues}
    \cup {[NoParams EXCEPT !.frequency_penalty = Some(x)] : x \in PenaltyValues}
    \cup {[NoParams EXCEPT !.presence_penalty = Some(x)] : x \in PenaltyValues}
    \cup {[NoParams EXCEPT !.temperature = Some(t), !.max_tokens = Some(m)] :
              t \in {0, 11}, m \in {0, 1}}

\* Requests that set any of the optional fields, one value each, and may name
\* the author of their message (ChatMessage.name).
OptionalSettings ==
    [temperature : {None, Some(5)}, max_tokens : {None}, top_p : {None, Some(9)},
     frequency_penalty : {None, Some(10)}, presence_penalty : {None, Some(-10)},
     stop : {None, Some("END")}, user : {None, Some("u-17")}]

VariantRequests ==
    {[PlainRequest EXCEPT
        !.stream = s, !.params = ps,
        !.messages = <<[role |-> "user", content |-> "hi", name |-> n]>>] :
        s \in BOOLEAN, ps \in OptionalSettings, n \in {None, Some("bob")}}

\* Inbound chat-completion requests that set generation parameters.
ParamRequests ==
    {[PlainRequest EXCEPT !.stream = s, !.params = ps] :
        s \in BOOLEAN, ps \in ParamSettings \cup {NoParams}}

\* ------------------------------------------------------------ models.py
\* ChatMessage: role is Literal["system", "user", "assistant"].
ValidChatMessage(msg) == msg.role \in {"system", "user", "assistant"}

\* Field(None, ge=lo, le=hi) on an Optional number.
InRange(value, lo, hi) == value = None \/ (lo <= value[1] /\ value[1] <= hi)

\* ChatCompletionRequest: messages is List[ChatMessage] = Field(...), a required
\* list with no minimum length; temperature and top_p are within [0.0, 1.0],
\* max_tokens is > 0, the two penalties are within [-2.0, 2.0].
ValidChatCompletionRequest_open_bounds(q) ==
    /\ \A i \in 1..Len(q.messages) : ValidChatMessage(q.messages[i])
    /\ q.params.temperature = None
            \/ (0 < q.params.temperature[1] /\ q.params.temperature[1] < 10)
    /\ q.params.max_tokens = None \/ q.params.max_tokens[1] > 1
    /\ InRange(q.params.top_p, 0, 10)
    /\ q.params.frequency_penalty = None
            \/ (-20 < q.params.frequency_penalty[1]
                    /\ q.params.frequency_penalty[1] < 20)
    /\ InRange(q.params.presence_penalty, -20, 20)

ValidChatCompletionRequest(q) ==
    /\ \A i \in 1..Len(q.messages) : ValidChatMessage(q.messages[i])
    /\ InRange(q.params.temperature, 0, 10)
    /\ q.params.max_tokens = None \/ q.params.max_tokens[1] > 0
    /\ InRange(q.params.top_p, 0, 10)
    /\ InRange(q.params.frequency_penalty, -20, 20)
    /\ InRange(q.params.presence_penalty, -20, 20)

\* ------------------------------------------------------------ responses
\* One caller-visible HTTP response.  shape: "none" (nothing sent yet),
\* "detail_text" ({"detail": "<message>"}), "detail_error"
\* ({"detail": {"error": {message, type, code}}}), "validation" (FastAPI's 422),
\* "completion" (ChatCompletionResponse), "stream" (StreamingResponse started),
\* "models" (ModelsResponse), "health" (HealthResponse).  id, model and choices
\* are those of a ChatCompletionResponse, models the names a ModelsResponse or
\* a HealthResponse lists, health_status and version the other two fields of a
\* HealthResponse.
Response(status, headers, shape, message, type, code) ==
    [status |-> status, headers |-> headers, shape |-> shape,
     message |-> message, type |-> type, code |-> code,
     id |-> "", model |-> "", choices |-> 0, role |-> "",
     content |-> "", finish_reason |-> "none",
     prompt_tokens |-> 0, completion_tokens |-> 0, total_tokens |-> 0,
     models |-> <<>>, health_status |-> "", version |-> ""]

NoResponse == Response(0, {}, "none", "", "", "")

\* raise HTTPException(status_code=401, detail=..., headers={"WWW-Authenticate": "Bearer"})
Unauthorized_no_challenge(detail) ==
    Response(401, {}, "detail_text", detail, "", "")

Unauthorized(detail) ==
    Response(401, {"WWW-Authenticate: Bearer"}, "detail_text", detail, "", "")

\* ------------------------------------------------------------ auth.py
\* APIKeyAuth.authenticate: the key's record, or the HTTPException it raises.
authenticate_ignores_enabled(credentials) ==
    IF credentials = NoCred
    THEN [ok |-> FALSE, response |-> Unauthorized("Authorization header required")]
    ELSE IF get_api_key_config(credentials) = None
    THEN [ok |-> FALSE, response |-> Unauthorized("Invalid API key")]
    ELSE [ok |-> TRUE, response |-> NoResponse]

authenticate(credentials) ==
    IF credentials = NoCred
    THEN [ok |-> FALSE, response |-> Unauthorized("Authorization header required")]
    ELSE LET key_config == get_api_key_config(credentials) IN
         IF key_config = None
         THEN [ok |-> FALSE, response |-> Unauthorized("Invalid API key")]
         ELSE IF ~key_config[1].enabled
         THEN [ok |-> FALSE, response |-> Unauthorized("API key is disabled")]
         ELSE [ok |-> TRUE, response |-> NoResponse]

\* APIKeyAuth.get_current_user: what the endpoint's dependency hands to the
\* handler as current_user, the record authenticate returns; None when it raised.
get_current_user(credentials) ==
    IF authenticate(credentials).ok THEN get_api_key_config(credentials) ELSE None

\* RequestIDMiddleware: str(uuid.uuid4()) of the request a task handles, stored
\* under the key "request_id" of the ASGI scope and appended to the response's
\* headers as x-request-id.  Two requests never draw the same uuid.
uuid4(r) == "uuid-" \o r

\* The ASGI scope of a request, a dict.
Scope(r) == [type |-> "http", request_id |-> uuid4(r)]

\* The attributes getattr finds on a dict: its methods, never its keys.
DictAttributes == {"get", "keys", "values", "items", "pop", "setdefault", "update"}

\* getattr(request.scope, "request_id", "unknown")
get_request_id(scope) ==
    IF "request_id" \in DictAttributes THEN scope.request_id ELSE "unknown"

\* f"chatcmpl-{request_id}"
completion_id(request_id) == "chatcmpl-" \o request_id

\* ------------------------------------------------------------ backend wire data
\* A JSON object sent by the backend (a response body or one stream line), as the
\* dict json.loads returns.  message: "absent" | "null" | "object"; done: "absent" |
\* "true" | "false"; a has_ flag tells whether the key is present.
Obj(message, has_content, content, done, has_pe, pe, has_ec, ec) ==
    [json |-> "object", message |-> message, has_content |-> has_content,
     content |-> content, done |-> done,
     has_prompt_eval_count |-> has_pe, prompt_eval_count |-> pe,
     has_eval_count |-> has_ec, eval_count |-> ec]

EmptyObj == Obj("absent", FALSE, "", "absent", FALSE, 0, FALSE, 0)

\* A JSON value that is not an object (a non-empty array).
ArrayValue == [EmptyObj EXCEPT !.json = "array"]

\* dict.get("done", False)
GetDone(data) == data.done = "true"

\* bool(value) of a parsed body: {} is falsy, a non-empty array is truthy.
Truthy(data) == data # EmptyObj

\* ollama_response.get("message", {}).get("content", ""): the content, or
\* raised |-> TRUE for the AttributeError of None.get when message is null.
GetMessageContent(data) ==
    IF data.message = "null" THEN [raised |-> TRUE, content |-> ""]
    ELSE IF data.message = "object" /\ data.has_content
    THEN [raised |-> FALSE, content |-> data.content]
    ELSE [raised |-> FALSE, content |-> ""]

\* One non-blank line of response.aiter_lines() (blank lines are dropped by
\* `if line.strip()` before anything looks at them, and are not drawn): raw
\* "malformed" is a line json.loads rejects, "json" a line it parses to data.
Line(raw, data) == [raw |-> raw, data |-> data]

MalformedLine == Line("malformed", EmptyObj)
HeLine == Line("json", Obj("object", TRUE, "he", "false", FALSE, 0, FALSE, 0))
LloDoneLine == Line("json", Obj("object", TRUE, "llo", "true", FALSE, 0, TRUE, 2))

BackendLines == {MalformedLine, HeLine, LloDoneLine}

\* A line that parses to an object whose message is null.
NullMessageLine == Line("json", Obj("null", FALSE, "", "false", FALSE, 0, FALSE, 0))

\* The closing line of a stream as Ollama sends it: done=true, content empty.
DoneLine == Line("json", Obj("object", TRUE, "", "true", FALSE, 0, TRUE, 2))

\* A line that reports both token counters before the stream is done.
CountedLine == Line("json", Obj("object", TRUE, "he", "false", TRUE, 3, TRUE, 1))

WideBackendLines == BackendLines \cup {NullMessageLine, DoneLine, CountedLine}

\* How the upstream HTTP call can fail: httpx.TimeoutException, httpx.ConnectError,
\* httpx.HTTPStatusError of raise_for_status, or any other exception raised inside
\* chat_completion's try block.
Failure(kind, code) == [kind |-> kind, code |-> code]

NoFailure == Failure("none", "")

UpstreamFailures ==
    { Failure("timeout", ""), Failure("connect_error", ""),
      Failure("bad_status", "404"), Failure("bad_status", "500"),
      Failure("transport_error", "") }

\* A 200 response to a non-streaming call whose body json.loads rejects: the
\* JSONDecodeError is raised inside chat_completion's try block.
InvalidJson == Failure("invalid_json", "")

\* The failures of a non-streaming call.
NonStreamFailures == UpstreamFailures \cup {InvalidJson}

\* A streaming call's connection breaking while a line is awaited:
\* _process_streaming_response wraps it, chat_completion wraps it again.
StreamBroken == Failure("Error processing streaming response", "")

\* The `async with self.http_client.stream(...)` context of one upstream call:
\* "none" (not entered), "open" (the client is inside it), "exited".  A call
\* that fails before the response's headers never enters it; a failure raised
\* inside it (raise_for_status, json.loads, a broken stream) leaves it.
context_after(failure) ==
    IF failure.kind \in {"timeout", "connect_error", "transport_error"}
    THEN "none" ELSE "exited"

\* Parsed bodies of a 200 response to a non-streaming call.
BackendBodies ==
    { Obj("object", TRUE, "hello", "true", TRUE, 3, TRUE, 2),
      Obj("object", TRUE, "hel", "false", FALSE, 0, FALSE, 0),
      Obj("absent", FALSE, "", "true", FALSE, 0, TRUE, 2),
      Obj("null", FALSE, "", "true", FALSE, 0, FALSE, 0),
      EmptyObj,
      ArrayValue }

\* ------------------------------------------------------------ ollama_client.py
RECURSIVE JoinQuoted(_)
JoinQuoted(names) ==
    IF names = <<>> THEN ""
    ELSE IF Len(names) = 1 THEN "'" \o names[1] \o "'"
    ELSE "'" \o names[1] \o "', " \o JoinQuoted(Tail(names))

\* str(list) of a list of model names.
ListRepr(names) == "[" \o JoinQuoted(names) \o "]"

\* OllamaModelNotFoundError raised by chat_completion on a route miss.
ModelNotFoundMessage(model) ==
    "Model '" \o model \o "' not found. Available models: "
        \o ListRepr(list_available_models)

\* The except clauses of chat_completion: every failure of the call becomes an
\* OllamaError (OllamaConnectionError is a subclass) with this message.
OllamaErrorMessage(failure, model) ==
    IF failure.kind = "timeout"
    THEN "Timeout connecting to Ollama for model " \o model
    ELSE IF failure.kind = "connect_error"
    THEN "Failed to connect to Ollama for model " \o model
    ELSE IF failure.kind = "bad_status"
    THEN "Ollama returned status " \o failure.code \o " for model " \o model
    ELSE "Unexpected error with Ollama for model " \o model \o ": " \o failure.kind

\* A dict with key k set to value v.
Put(d, k, v) == [x \in DOMAIN d \cup {k} |-> IF x = k THEN v ELSE d[x]]

\* [{"role": msg.role, "content": msg.content} for msg in chat_request.messages]
ollama_messages(messages) ==
    [i \in 1..Len(messages) |->
        [role |-> messages[i].role, content |-> messages[i].content]]

\* The JSON payload chat_completion builds for the backend: model, messages
\* and stream; options when temperature or max_tokens is not None; then every
\* keyword of kwargs whose key the payload does not hold yet.
build_payload_truthy(model_config, messages, stream, temperature, max_tokens, kwargs) ==
    LET p0 == [model |-> model_config.model, messages |-> messages, stream |-> stream]
        p1 == IF temperature # None /\ temperature[1] # 0
              THEN Put(p0, "options", [temperature |-> temperature[1]])
              ELSE p0
        p2 == IF max_tokens # None /\ max_tokens[1] # 0
              THEN Put(p1, "options",
                       Put(IF "options" \in DOMAIN p1 THEN p1["options"] ELSE <<>>,
                           "num_predict", max_tokens[1]))
              ELSE p1
    IN  [x \in DOMAIN p2 \cup DOMAIN kwargs |->
            IF x \in DOMAIN p2 THEN p2[x] ELSE kwargs[x]]

build_payload(model_config, messages, stream, temperature, max_tokens, kwargs) ==
    LET p0 == [model |-> model_config.model, messages |-> messages, stream |-> stream]
        p1 == IF temperature # None
              THEN Put(p0, "options", [temperature |-> temperature[1]])
              ELSE p0
        p2 == IF max_tokens # None
              THEN Put(p1, "options",
                       Put(IF "options" \in DOMAIN p1 THEN p1["options"] ELSE <<>>,
                           "num_predict", max_tokens[1]))
              ELSE p1
    IN  [x \in DOMAIN p2 \cup DOMAIN kwargs |->
            IF x \in DOMAIN p2 THEN p2[x] ELSE kwargs[x]]

\* Extra keyword parameters a caller of OllamaClient.chat_completion may pass.
\* model, messages, stream, temperature and max_tokens are the method's named
\* parameters and cannot arrive in kwargs.
ExtraKwargs ==
    { <<>>,
      [format |-> "json"],
      [options |-> [seed |-> 7]],
      [options |-> [seed |-> 7], keep_alive |-> "5m"] }

\* chat_completion up to its first await: the route lookup.  call |-> TRUE when
\* the upstream HTTP call is issued, else the OllamaModelNotFoundError message.
chat_completion_begin(model) ==
    IF get_model_config(model) = None
    THEN [call |-> FALSE, error |-> ModelNotFoundMessage(model)]
    ELSE [call |-> TRUE, error |-> ""]

\* ------------------------------------------------------------ logging.py
\* The record RequestLogger.log_request_complete emits.  has_tokens is FALSE
\* when tokens_prompt / tokens_response are left None; error "" is None.
log_request_complete(status_code, has_tokens, tokens_prompt, tokens_response, error) ==
    [status_code |-> status_code, has_tokens |-> has_tokens,
     tokens_prompt |-> tokens_prompt, tokens_response |-> tokens_response,
     error |-> error]

\* ------------------------------------------------------------ router.py: responses
\* HTTPException(503, detail=ErrorResponse(...).model_dump()) of chat_completions.
ServiceUnavailable(message) ==
    Response(503, {}, "detail_error", message, "service_unavailable", "ollama_error")

\* HTTPException(500, ...) of chat_completions: a fixed message.
InternalServerError ==
    Response(500, {}, "detail_error", "Internal server error", "internal_error",
             "server_error")

\* FastAPI's answer to a body that fails ChatCompletionRequest's validation.
ValidationRejected == Response(422, {}, "validation", "", "", "")

\* StreamingResponse(..., media_type="text/plain", headers={"X-Request-ID":
\* request_id}).
StreamingStarted(request_id) ==
    Response(200, {"X-Request-ID: " \o request_id}, "stream", "", "", "")

\* ChatCompletionResponse built by _non_stream_chat_completion: one choice, its
\* message of role assistant, and the usage.
Completion_total_is_completion(content, finish_reason, prompt_tokens, completion_tokens) ==
    [Response(200, {}, "completion", "", "", "") EXCEPT
        !.choices = 1, !.role = "assistant",
        !.content = content, !.finish_reason = finish_reason,
        !.prompt_tokens = prompt_tokens, !.completion_tokens = completion_tokens,
        !.total_tokens = completion_tokens]

Completion(content, finish_reason, prompt_tokens, completion_tokens) ==
    [Response(200, {}, "completion", "", "", "") EXCEPT
        !.choices = 1, !.role = "assistant",
        !.content = content, !.finish_reason = finish_reason,
        !.prompt_tokens = prompt_tokens, !.completion_tokens = completion_tokens,
        !.total_tokens = prompt_tokens + completion_tokens]

\* model=chat_request.model of ChatCompletionResponse and ChatCompletionChunk.
response_model_native(chat_request) == load_models.table[chat_request.model].model

response_model(chat_request) == chat_request.model

\* id=f"chatcmpl-{request_id}", model=chat_request.model on the response
\* _non_stream_chat_completion returns; what it raises has neither.
openai_response(request_id, chat_request, response) ==
    IF response.shape = "completion"
    THEN [response EXCEPT !.id = completion_id(request_id),
                          !.model = response_model(chat_request)]
    ELSE response

\* What a handler leaves behind when it returns or raises: the response and the
\* completion log events it emitted on the way.
Outcome(response, logs) == [response |-> response, logs |-> logs]

\* chat_completions, except OllamaError: one log event, then HTTP 503.
on_ollama_error(message) ==
    Outcome(ServiceUnavailable(message),
            <<log_request_complete(503, FALSE, 0, 0, message)>>)

\* chat_completions, except Exception: one log event, then HTTP 500.
on_exception(detail) ==
    Outcome(InternalServerError, <<log_request_complete(500, FALSE, 0, 0, detail)>>)

\* str(e) of the AttributeError that value.get raises when value is not a dict.
NoAttributeGet(type) == "'" \o type \o "' object has no attribute 'get'"

\* dict.get(key, 0) of the two token counters.
GetPromptEvalCount(data) ==
    IF data.has_prompt_eval_count THEN data.prompt_eval_count ELSE 0

GetEvalCount(data) == IF data.has_eval_count THEN data.eval_count ELSE 0

\* _non_stream_chat_completion once the backend's body is parsed, together with
\* the except clauses of chat_completions that catch what it raises.
non_stream_translate(ollama_response) ==
    IF ~Truthy(ollama_response)
    THEN on_ollama_error("No response received from Ollama")
    ELSE IF ollama_response.json # "object"
    THEN on_exception(NoAttributeGet("list"))
    ELSE IF GetMessageContent(ollama_response).raised
    THEN on_exception(NoAttributeGet("NoneType"))
    ELSE LET prompt_tokens == GetPromptEvalCount(ollama_response)
             completion_tokens == GetEvalCount(ollama_response)
         IN  Outcome(
                Completion(GetMessageContent(ollama_response).content,
                           IF GetDone(ollama_response) THEN "stop" ELSE "none",
                           prompt_tokens, completion_tokens),
                <<log_request_complete(200, TRUE, prompt_tokens, completion_tokens, "")>>)

\* The non-streaming upstream call as the handler sees it: a failure of the call
\* (timeout, connect, status, transport, a body that is not JSON) is an
\* OllamaError; a parsed body is translated.
non_stream_outcome_backend_status(model, failure, body) ==
    IF failure.kind = "bad_status"
    THEN Outcome([ServiceUnavailable(OllamaErrorMessage(failure, model))
                      EXCEPT !.status = IF failure.code = "404" THEN 404 ELSE 500],
                 <<log_request_complete(503, FALSE, 0, 0,
                                        OllamaErrorMessage(failure, model))>>)
    ELSE IF failure # NoFailure
    THEN on_ollama_error(OllamaErrorMessage(failure, model))
    ELSE non_stream_translate(body)

non_stream_outcome(model, failure, body) ==
    IF failure # NoFailure
    THEN on_ollama_error(OllamaErrorMessage(failure, model))
    ELSE non_stream_translate(body)

\* ------------------------------------------------------------ router.py: frames
\* One text frame of a streaming response.  kind "chunk" is
\* data: <ChatCompletionChunk json>, "error" is data: <error payload>, "done" is
\* data: [DONE].  role "none" / has_content FALSE / finish_reason "none" are None.
Frame(kind, role, has_content, content, finish_reason, message) ==
    [kind |-> kind, role |-> role, has_content |-> has_content,
     content |-> content, finish_reason |-> finish_reason, message |-> message,
     id |-> "", model |-> ""]

\* ChatCompletionChunk(id=completion_id, model=chat_request.model, choices=[...])
\* around the choice a frame holds.
ChatCompletionChunk(id, model, frame) == [frame EXCEPT !.id = id, !.model = model]

DoneFrame == Frame("done", "none", FALSE, "", "none", "")

\* The except clause of _stream_chat_completion: str(e) inline.
ErrorFrame(message) == Frame("error", "none", FALSE, "", "none", message)

\* final_chunk: ChatCompletionChunkDelta() with finish_reason="stop".
FinalChunk == Frame("chunk", "none", FALSE, "", "stop", "")

\* The chunk built for one backend line: the role announcement on the first
\* line, the line's content afterwards; finish_reason follows the line's done.
stream_chunk_role_always(first_chunk, ollama_chunk) ==
    Frame("chunk",
          "assistant",
          TRUE,
          IF first_chunk THEN "" ELSE GetMessageContent(ollama_chunk).content,
          IF GetDone(ollama_chunk) THEN "stop" ELSE "none",
          "")

stream_chunk(first_chunk, ollama_chunk) ==
    Frame("chunk",
          IF first_chunk THEN "assistant" ELSE "none",
          TRUE,
          IF first_chunk THEN "" ELSE GetMessageContent(ollama_chunk).content,
          IF GetDone(ollama_chunk) THEN "stop" ELSE "none",
          "")

\* ------------------------------------------------------------ router.py: frames as text
\* created_time = int(time.time()) of the generator, the same in all its chunks.
created_time == 1700000000

HasChar(s, c) == \E i \in 1..Len(s) : SubSeq(s, i, i) = c

\* The inside of a JSON string literal: the double quote and the backslash
\* are escaped.
RECURSIVE json_escape(_)
json_escape(s) ==
    IF s = "" THEN ""
    ELSE LET c == SubSeq(s, 1, 1)
         IN  (IF c = "\"" THEN "\\\"" ELSE IF c = "\\" THEN "\\\\" ELSE c)
                \o json_escape(SubSeq(s, 2, Len(s)))

json_str(s) == "\"" \o json_escape(s) \o "\""

\* An Optional[str] field: null when it is None.
json_optional(present, s) == IF present THEN json_str(s) ELSE "null"

\* chunk.model_dump_json() of a ChatCompletionChunk: compact JSON, the fields
\* in the order the models declare them, None written as null.
model_dump_json(frame) ==
    "{\"id\":" \o json_str(frame.id)
        \o ",\"object\":\"chat.completion.chunk\",\"created\":"
        \o str_int(created_time)
        \o ",\"model\":" \o json_str(frame.model)
        \o ",\"choices\":[{\"index\":0,\"delta\":{\"role\":"
        \o json_optional(frame.role # "none", frame.role)
        \o ",\"content\":" \o json_optional(frame.has_content, frame.content)
        \o "},\"finish_reason\":"
        \o json_optional(frame.finish_reason # "none", frame.finish_reason)
        \o "}]}"

\* repr() of a str that holds no double quote: in single quotes, or in double
\* quotes when it holds a single quote.
str_repr(s) == IF HasChar(s, "'") THEN "\"" \o s \o "\"" ELSE "'" \o s \o "'"

\* f"{error_chunk}" of the dict error_chunk: str(dict), which is its repr.
dict_repr(message) ==
    "{'error': {'message': " \o str_repr(message)
        \o ", 'type': 'server_error', 'code': 'streaming_error'}}"

\* The text the generator yields for a frame.
sse_text(frame) ==
    IF frame.kind = "done" THEN "data: [DONE]\n\n"
    ELSE IF frame.kind = "error" THEN "data: " \o dict_repr(frame.message) \o "\n\n"
    ELSE "data: " \o model_dump_json(frame) \o "\n\n"

\* ------------------------------------------------------------ state
VARIABLES
    pc,                 \* where each task is suspended
    req,                \* the request each task handles
    current_user,       \* the handler's current_user, from get_current_user
    resp,               \* the HTTP response (status line, headers, JSON body)
    x_request_id,       \* the x-request-id header the middleware appended to it
    frames,             \* the text frames yielded to the transport, in order
    upstream_calls,     \* upstream HTTP calls issued for the request
    payload,            \* the JSON payload of the upstream call
    http_stream,        \* method, endpoint and timeout of the upstream call
    completion_logs,    \* log_request_complete events of the request, in order
    lines,              \* backend lines the client has read, in order
    first_chunk,        \* local of _stream_chat_completion
    prompt_tokens,      \* local of _stream_chat_completion
    completion_tokens,  \* local of _stream_chat_completion
    ollama_chunk,       \* the parsed line the transcoder is working on
    ollama_response,    \* local of _non_stream_chat_completion: the parsed body
    upstream_failure,   \* how the upstream call failed, if it did
    unclassified,       \* str(e) of an exception other than OllamaError, if raised
    cancelled,          \* the caller disconnected before the stream ended
    connection,         \* the http_client.stream context of the upstream call
    late                \* done=true lines the backend sent after the first one

vars ==
    <<models_file, _models_cache, pc, req, current_user, resp, x_request_id, frames,
      upstream_calls, payload, http_stream, completion_logs, lines, first_chunk,
      prompt_tokens,
      completion_tokens, ollama_chunk, ollama_response, upstream_failure,
      unclassified, cancelled, connection, late>>

stream_locals == <<first_chunk, prompt_tokens, completion_tokens, ollama_chunk>>

\* The suspension points of the streaming generator and of its transport.
StreamSuspended ==
    {"stream_start", "connecting", "reading", "yield_chunk", "yield_final",
     "yield_done", "yield_error", "yield_error_done"}

\* No request received yet and nothing loaded.
InitTasks ==
    /\ _models_cache = None
    /\ pc = [r \in Reqs |-> "idle"]
    /\ req = [r \in Reqs |-> NoReq]
    /\ current_user = [r \in Reqs |-> None]
    /\ resp = [r \in Reqs |-> NoResponse]
    /\ x_request_id = [r \in Reqs |-> ""]
    /\ frames = [r \in Reqs |-> <<>>]
    /\ upstream_calls = [r \in Reqs |-> 0]
    /\ payload = [r \in Reqs |-> None]
    /\ http_stream = [r \in Reqs |-> None]
    /\ completion_logs = [r \in Reqs |-> <<>>]
    /\ lines = [r \in Reqs |-> <<>>]
    /\ first_chunk = [r \in Reqs |-> TRUE]
    /\ prompt_tokens = [r \in Reqs |-> 0]
    /\ completion_tokens = [r \in Reqs |-> 0]
    /\ ollama_chunk = [r \in Reqs |-> EmptyObj]
    /\ ollama_response = [r \in Reqs |-> EmptyObj]
    /\ upstream_failure = [r \in Reqs |-> NoFailure]
    /\ unclassified = [r \in Reqs |-> ""]
    /\ cancelled = [r \in Reqs |-> FALSE]
    /\ connection = [r \in Reqs |-> "none"]
    /\ late = [r \in Reqs |-> 0]

Init == models_file = ModelsYaml /\ InitTasks

\* The gateway started with the routes of RoutesYaml.
InitRoutes == models_file = RoutesYaml /\ InitTasks

\* if "<counter>" in ollama_chunk: <tokens> = ollama_chunk["<counter>"]: the
\* line's value replaces the one held; a line without the key leaves it.
count_tokens_accumulated(held, has_count, count) ==
    IF has_count THEN held + count ELSE held

count_tokens(held, has_count, count) == IF has_count THEN count ELSE held

\* first_chunk = False: the flag is a local of the generator of the request
\* being served, one per request.
clear_first_chunk_shared(r) == [s \in Reqs |-> FALSE]

clear_first_chunk(r) == [first_chunk EXCEPT ![r] = FALSE]

\* send_with_request_id of RequestIDMiddleware: the header it appends when the
\* response starts.
send_with_request_id(scope, response) ==
    IF response = NoResponse THEN "" ELSE scope.request_id

\* ------------------------------------------------------------ configuration on disk
\* An operator edits models.yaml while the gateway runs.
ModelsFileChanges ==
    /\ models_file = ModelsYaml
    /\ models_file' = ModelsYamlEdited
    /\ UNCHANGED <<_models_cache, pc, req, current_user, resp, x_request_id, frames,
                   upstream_calls, payload, http_stream, completion_logs, lines,
                   stream_locals, ollama_response, upstream_failure, unclassified,
                   cancelled, late, connection>>

\* ConfigManager.reload_config() is called.
ReloadConfig ==
    /\ _models_cache # None
    /\ reload_config
    /\ UNCHANGED <<pc, req, current_user, resp, x_request_id, frames, upstream_calls,
                   payload, http_stream, completion_logs, lines, stream_locals,
                   ollama_response, upstream_failure, unclassified, cancelled, late,
                   connection>>

\* ------------------------------------------------------------ POST /v1/chat/completions
\* The payload the client builds for a request: the handlers pass the messages
\* as role/content dicts, and temperature and max_tokens when they are not None.
request_payload_forwards_top_p(chat_request) ==
    build_payload(get_model_config(chat_request.model)[1],
                  ollama_messages(chat_request.messages), chat_request.stream,
                  chat_request.params.temperature, chat_request.params.max_tokens,
                  IF chat_request.params.top_p = None THEN chat_request.kwargs
                  ELSE Put(chat_request.kwargs, "top_p", chat_request.params.top_p[1]))

request_payload(chat_request) ==
    build_payload(get_model_config(chat_request.model)[1],
                  ollama_messages(chat_request.messages), chat_request.stream,
                  chat_request.params.temperature, chat_request.params.max_tokens,
                  chat_request.kwargs)

\* The arguments of http_client.stream for a request: the method, the endpoint
\* f"{ollama_url}/api/chat" and timeout=model_config.timeout.
request_endpoint(chat_request) ==
    [method |-> "POST",
     endpoint |-> get_ollama_url(chat_request.model)[1] \o "/api/chat",
     timeout |-> get_model_config(chat_request.model)[1].timeout]

\* The synchronous part of one inbound call: the get_current_user dependency,
\* the validation of the body, then chat_completions up to its first await.
\* next is the task's next position, call the upstream calls issued, loaded
\* tells whether the route table was looked up, sent is the payload sent.
Entry(next, response, logs, call, loaded, sent) ==
    [next |-> next, response |-> response, logs |-> logs, call |-> call,
     loaded |-> loaded, sent |-> sent]

chat_completions(scope, q) ==
    IF ~authenticate(q.cred).ok
    THEN Entry("done", authenticate(q.cred).response, <<>>, 0, FALSE, None)
    ELSE IF ~ValidChatCompletionRequest(q)
    THEN Entry("done", ValidationRejected, <<>>, 0, FALSE, None)
    ELSE IF q.stream
    THEN Entry("stream_start", StreamingStarted(get_request_id(scope)), <<>>, 0,
               FALSE, None)
    ELSE IF chat_completion_begin(q.model).call
    THEN Entry("await_response", NoResponse, <<>>, 1, TRUE, Some(request_payload(q)))
    ELSE Entry("done", on_ollama_error(chat_completion_begin(q.model).error).response,
               on_ollama_error(chat_completion_begin(q.model).error).logs, 0,
               TRUE, None)

\* A chat-completion request drawn from Q arrives and is handled up to its
\* first suspension point.
ReceiveFrom(r, Q) ==
    /\ pc[r] = "idle"
    /\ \E q \in Q :
        LET e == chat_completions(Scope(r), q) IN
        /\ req' = [req EXCEPT ![r] = q]
        /\ current_user' = [current_user EXCEPT ![r] = get_current_user(q.cred)]
        /\ pc' = [pc EXCEPT ![r] = e.next]
        /\ resp' = [resp EXCEPT ![r] = e.response]
        /\ x_request_id' = [x_request_id EXCEPT ![r] =
                                send_with_request_id(Scope(r), e.response)]
        /\ completion_logs' = [completion_logs EXCEPT ![r] = e.logs]
        /\ upstream_calls' = [upstream_calls EXCEPT ![r] = e.call]
        /\ payload' = [payload EXCEPT ![r] = e.sent]
        /\ http_stream' = [http_stream EXCEPT ![r] =
                IF e.call = 1 THEN Some(request_endpoint(q)) ELSE None]
        /\ IF e.loaded THEN cache_models ELSE UNCHANGED _models_cache
    /\ UNCHANGED <<models_file, frames, lines, stream_locals, ollama_response,
                   upstream_failure, unclassified, cancelled, late, connection>>

Receive(r) == ReceiveFrom(r, Requests)

\* GET /v1/models: the get_current_user dependency, then the configured models.
list_models(q) ==
    IF ~authenticate(q.cred).ok
    THEN authenticate(q.cred).response
    ELSE [Response(200, {}, "models", "", "", "") EXCEPT !.models = load_models.keys]

ListModels(r) ==
    /\ pc[r] = "idle"
    /\ \E q \in ModelsRequests :
        /\ req' = [req EXCEPT ![r] = q]
        /\ current_user' = [current_user EXCEPT ![r] = get_current_user(q.cred)]
        /\ resp' = [resp EXCEPT ![r] = list_models(q)]
        /\ IF authenticate(q.cred).ok THEN cache_models ELSE UNCHANGED _models_cache
    /\ x_request_id' = [x_request_id EXCEPT ![r] = Scope(r).request_id]
    /\ pc' = [pc EXCEPT ![r] = "done"]
    /\ UNCHANGED <<models_file, frames, upstream_calls, payload, http_stream,
                   completion_logs, lines, stream_locals, ollama_response,
                   upstream_failure, unclassified, cancelled, late, connection>>

\* GET /health: the configured model names.
health_check ==
    [Response(200, {}, "health", "", "", "") EXCEPT
        !.health_status = "healthy", !.models = list_available_models,
        !.version = "0.1.0"]

HealthCheck_authenticated(r) ==
    /\ pc[r] = "idle"
    /\ \E q \in HealthRequests :
        /\ req' = [req EXCEPT ![r] = q]
        /\ resp' = [resp EXCEPT ![r] =
                IF authenticate(q.cred).ok THEN health_check
                ELSE authenticate(q.cred).response]
    /\ UNCHANGED current_user
    /\ cache_models
    /\ x_request_id' = [x_request_id EXCEPT ![r] = Scope(r).request_id]
    /\ pc' = [pc EXCEPT ![r] = "done"]
    /\ UNCHANGED <<models_file, frames, upstream_calls, payload, http_stream,
                   completion_logs, lines, stream_locals, ollama_response,
                   upstream_failure, unclassified, cancelled, late, connection>>

HealthCheck(r) ==
    /\ pc[r] = "idle"
    /\ \E q \in HealthRequests : req' = [req EXCEPT ![r] = q]
    /\ UNCHANGED current_user
    /\ resp' = [resp EXCEPT ![r] = health_check]
    /\ cache_models
    /\ x_request_id' = [x_request_id EXCEPT ![r] = Scope(r).request_id]
    /\ pc' = [pc EXCEPT ![r] = "done"]
    /\ UNCHANGED <<models_file, frames, upstream_calls, payload, http_stream,
                   completion_logs, lines, stream_locals, ollama_response,
                   upstream_failure, unclassified, cancelled, late, connection>>

\* The backend answers (or fails) the non-streaming call; the handler translates
\* the answer and returns, or raises into the except clauses of chat_completions.
\* After an answer the handler breaks out of its loop and leaves the client's
\* generator suspended at its yield, inside the context.
NonStreamResponse(r) ==
    /\ pc[r] = "await_response"
    /\ \E failure \in NonStreamFailures \cup {NoFailure}, body \in BackendBodies :
        LET o == non_stream_outcome(req[r].model, failure, body) IN
        /\ failure # NoFailure => body = EmptyObj
        /\ upstream_failure' = [upstream_failure EXCEPT ![r] = failure]
        /\ connection' = [connection EXCEPT ![r] =
                IF failure = NoFailure THEN "open" ELSE context_after(failure)]
        /\ ollama_response' = [ollama_response EXCEPT ![r] = body]
        /\ resp' = [resp EXCEPT ![r] =
                        openai_response(get_request_id(Scope(r)), req[r], o.response)]
        /\ completion_logs' = [completion_logs EXCEPT ![r] = @ \o o.logs]
        /\ unclassified' = [unclassified EXCEPT ![r] =
                        IF o.response.status = 500 THEN o.logs[1].error ELSE @]
    /\ x_request_id' = [x_request_id EXCEPT ![r] = Scope(r).request_id]
    /\ pc' = [pc EXCEPT ![r] = "done"]
    /\ UNCHANGED <<config, req, current_user, frames, upstream_calls, payload,
                   http_stream, lines, stream_locals, cancelled, late>>

\* ------------------------------------------------------------ OllamaClient.chat_completion
\* Calls of the client by code other than the two handlers, which may pass any
\* temperature and max_tokens and extra keyword parameters.
DirectCalls ==
    [path : {"OllamaClient.chat_completion"}, cred : {NoCred},
     model : RequestedModels, messages : {PlainRequest.messages}, stream : BOOLEAN,
     params : {NoParams,
               [NoParams EXCEPT !.temperature = Some(0)],
               [NoParams EXCEPT !.max_tokens = Some(4)],
               [NoParams EXCEPT !.temperature = Some(5), !.max_tokens = Some(1)]},
     kwargs : ExtraKwargs]

\* The client is called: the route lookup, then the payload is built and the
\* upstream call issued.  What the caller does with the answer is its own.
DirectCall(r) ==
    /\ pc[r] = "idle"
    /\ \E q \in DirectCalls :
        /\ req' = [req EXCEPT ![r] = q]
        /\ UNCHANGED current_user
        /\ IF chat_completion_begin(q.model).call
           THEN /\ payload' = [payload EXCEPT ![r] = Some(request_payload(q))]
                /\ http_stream' = [http_stream EXCEPT ![r] = Some(request_endpoint(q))]
                /\ upstream_calls' = [upstream_calls EXCEPT ![r] = 1]
                /\ pc' = [pc EXCEPT ![r] = "client_call"]
           ELSE /\ pc' = [pc EXCEPT ![r] = "client_raised"]
                /\ UNCHANGED <<payload, http_stream, upstream_calls>>
    /\ cache_models
    /\ UNCHANGED <<models_file, resp, x_request_id, frames, completion_logs, lines,
                   stream_locals, ollama_response, upstream_failure, unclassified,
                   cancelled, late, connection>>

\* ------------------------------------------------------------ the streaming generator
\* _process_streaming_response on one line: "skip" (json.loads raised
\* JSONDecodeError), "yield" (the parsed dict goes to the transcoder), "raise"
\* (an OllamaError leaves the generator).
process_line_strict(line) == IF line.raw = "malformed" THEN "raise" ELSE "yield"

process_line_batching(line) ==
    IF line.raw = "malformed" \/ ~GetDone(line.data) THEN "skip" ELSE "yield"

process_line(line) == IF line.raw = "malformed" THEN "skip" ELSE "yield"

\* Where the transcoder goes when it resumes after yielding a line's chunk:
\* a done line leads to the final chunk, any other to the next read.
after_chunk(chunk) == IF GetDone(chunk) THEN "yield_final" ELSE "reading"

\* Where the transcoder goes after yielding data: [DONE] on a done line: break.
after_done_marker_no_break == "reading"

after_done_marker == "done"

\* The except clause of _stream_chat_completion: one log event and the inline
\* error frame; data: [DONE] follows when the generator is resumed.
StreamFailsAbruptly(r, message) ==
    /\ completion_logs' = [completion_logs EXCEPT ![r] =
            Append(@, log_request_complete(500, FALSE, 0, 0, message))]
    /\ pc' = [pc EXCEPT ![r] = "done"]
    /\ UNCHANGED frames

StreamFails(r, message) ==
    /\ completion_logs' = [completion_logs EXCEPT ![r] =
            Append(@, log_request_complete(500, FALSE, 0, 0, message))]
    /\ frames' = [frames EXCEPT ![r] = Append(@, ErrorFrame(message))]
    /\ pc' = [pc EXCEPT ![r] = "yield_error"]

\* The transport starts iterating the generator: the route lookup of
\* chat_completion, then the upstream call is issued.
StreamStart(r) ==
    /\ pc[r] = "stream_start"
    /\ IF chat_completion_begin(req[r].model).call
       THEN /\ upstream_calls' = [upstream_calls EXCEPT ![r] = @ + 1]
            /\ payload' = [payload EXCEPT ![r] = Some(request_payload(req[r]))]
            /\ http_stream' = [http_stream EXCEPT ![r] =
                                    Some(request_endpoint(req[r]))]
            /\ pc' = [pc EXCEPT ![r] = "connecting"]
            /\ UNCHANGED <<completion_logs, frames>>
       ELSE /\ StreamFails(r, chat_completion_begin(req[r].model).error)
            /\ UNCHANGED <<upstream_calls, payload, http_stream>>
    /\ cache_models
    /\ UNCHANGED <<models_file, req, current_user, resp, x_request_id, lines,
                   stream_locals, ollama_response, upstream_failure, unclassified,
                   cancelled, late, connection>>

\* The backend's response headers arrive, or the call fails first.  A failure
\* goes to the except clauses, which raise: the call is not issued again and
\* max_retries is never read.
Connect_retrying(r) ==
    /\ pc[r] = "connecting"
    /\ \E failure \in UpstreamFailures \cup {NoFailure} :
        /\ upstream_failure' = [upstream_failure EXCEPT ![r] = failure]
        /\ connection' = [connection EXCEPT ![r] =
                IF failure = NoFailure THEN "open" ELSE context_after(failure)]
        /\ IF failure = NoFailure
           THEN /\ pc' = [pc EXCEPT ![r] = "reading"]
                /\ UNCHANGED <<completion_logs, frames, upstream_calls>>
           ELSE IF upstream_calls[r] <= get_model_config(req[r].model)[1].max_retries
           THEN /\ upstream_calls' = [upstream_calls EXCEPT ![r] = @ + 1]
                /\ UNCHANGED <<pc, completion_logs, frames>>
           ELSE /\ StreamFails(r, OllamaErrorMessage(failure, req[r].model))
                /\ UNCHANGED upstream_calls
    /\ UNCHANGED <<config, req, current_user, resp, x_request_id, payload, http_stream,
                   lines, stream_locals, ollama_response, unclassified, cancelled, late>>

Connect(r) ==
    /\ pc[r] = "connecting"
    /\ \E failure \in UpstreamFailures \cup {NoFailure} :
        /\ upstream_failure' = [upstream_failure EXCEPT ![r] = failure]
        /\ connection' = [connection EXCEPT ![r] =
                IF failure = NoFailure THEN "open" ELSE context_after(failure)]
        /\ IF failure = NoFailure
           THEN /\ pc' = [pc EXCEPT ![r] = "reading"]
                /\ UNCHANGED <<completion_logs, frames>>
           ELSE StreamFails(r, OllamaErrorMessage(failure, req[r].model))
    /\ UNCHANGED <<config, req, current_user, resp, x_request_id, upstream_calls,
                   payload, http_stream, lines, stream_locals, ollama_response,
                   unclassified, cancelled, late>>

\* One line drawn from L arrives.  A skipped line changes nothing; a parsed line
\* updates the token counters, and its chunk is yielded to the transport, unless
\* reading its content raises: message is null and the line is not the first.
ReadLineFrom(r, L) ==
    /\ pc[r] = "reading"
    /\ Len(lines[r]) < MaxLines
    /\ \E line \in L :
        /\ lines' = [lines EXCEPT ![r] = Append(@, line)]
        /\ connection' = [connection EXCEPT ![r] =
                IF process_line(line) = "raise" THEN "exited" ELSE @]
        /\ IF process_line(line) = "yield"
           THEN /\ prompt_tokens' = [prompt_tokens EXCEPT ![r] =
                        count_tokens(@, line.data.has_prompt_eval_count,
                                     line.data.prompt_eval_count)]
                /\ completion_tokens' = [completion_tokens EXCEPT ![r] =
                        count_tokens(@, line.data.has_eval_count,
                                     line.data.eval_count)]
                /\ ollama_chunk' = [ollama_chunk EXCEPT ![r] = line.data]
                /\ first_chunk' = clear_first_chunk(r)
                /\ IF ~first_chunk[r] /\ GetMessageContent(line.data).raised
                   THEN /\ StreamFails(r, NoAttributeGet("NoneType"))
                        /\ unclassified' = [unclassified EXCEPT ![r] =
                                                NoAttributeGet("NoneType")]
                   ELSE /\ frames' = [frames EXCEPT ![r] =
                                Append(@, ChatCompletionChunk(
                                    completion_id(get_request_id(Scope(r))),
                                    response_model(req[r]),
                                    stream_chunk(first_chunk[r], line.data)))]
                        /\ pc' = [pc EXCEPT ![r] = "yield_chunk"]
                        /\ UNCHANGED <<completion_logs, unclassified>>
                /\ UNCHANGED upstream_failure
           ELSE IF process_line(line) = "raise"
           THEN /\ StreamFails(r, OllamaErrorMessage(StreamBroken, req[r].model))
                /\ upstream_failure' = [upstream_failure EXCEPT ![r] = StreamBroken]
                /\ UNCHANGED <<stream_locals, unclassified>>
           ELSE UNCHANGED <<pc, frames, completion_logs, stream_locals,
                            upstream_failure, unclassified>>
    /\ UNCHANGED <<config, req, current_user, resp, x_request_id, upstream_calls,
                   payload, http_stream, ollama_response, cancelled, late>>

ReadLine(r) == ReadLineFrom(r, BackendLines)

\* The connection breaks while a line is awaited: aiter_lines raises, which
\* _process_streaming_response and chat_completion wrap in an OllamaError.
StreamTransportError(r) ==
    /\ pc[r] = "reading"
    /\ upstream_failure' = [upstream_failure EXCEPT ![r] = StreamBroken]
    /\ connection' = [connection EXCEPT ![r] = context_after(StreamBroken)]
    /\ StreamFails(r, OllamaErrorMessage(StreamBroken, req[r].model))
    /\ UNCHANGED <<config, req, current_user, resp, x_request_id, upstream_calls,
                   payload, http_stream, lines, stream_locals, ollama_response,
                   unclassified, cancelled, late>>

\* The backend closes the stream: the client's loop ends and leaves the
\* context, the transcoder's loop ends and the completion is logged.
EndOfStream(r) ==
    /\ pc[r] = "reading"
    /\ connection' = [connection EXCEPT ![r] = "exited"]
    /\ completion_logs' = [completion_logs EXCEPT ![r] =
            Append(@, log_request_complete(200, TRUE, prompt_tokens[r],
                                           completion_tokens[r], ""))]
    /\ pc' = [pc EXCEPT ![r] = "done"]
    /\ UNCHANGED <<config, req, current_user, resp, x_request_id, frames,
                   upstream_calls, payload, http_stream, lines, stream_locals,
                   ollama_response, upstream_failure, unclassified, cancelled, late>>

\* The generator resumes after the yield of a line's chunk.
ResumeAfterChunk(r) ==
    /\ pc[r] = "yield_chunk"
    /\ pc' = [pc EXCEPT ![r] = after_chunk(ollama_chunk[r])]
    /\ frames' = [frames EXCEPT ![r] =
            IF after_chunk(ollama_chunk[r]) = "yield_final"
            THEN Append(@, ChatCompletionChunk(completion_id(get_request_id(Scope(r))),
                                               response_model(req[r]), FinalChunk))
            ELSE @]
    /\ UNCHANGED <<config, req, current_user, resp, x_request_id, upstream_calls,
                   payload, http_stream, completion_logs, lines, stream_locals,
                   ollama_response, upstream_failure, unclassified, cancelled, late,
                   connection>>

\* The generator resumes after the yield of the final chunk: data: [DONE].
ResumeAfterFinal(r) ==
    /\ pc[r] = "yield_final"
    /\ frames' = [frames EXCEPT ![r] = Append(@, DoneFrame)]
    /\ pc' = [pc EXCEPT ![r] = "yield_done"]
    /\ UNCHANGED <<config, req, current_user, resp, x_request_id, upstream_calls,
                   payload, http_stream, completion_logs, lines, stream_locals,
                   ollama_response, upstream_failure, unclassified, cancelled, late,
                   connection>>

\* The generator resumes after data: [DONE]: break, then the completion is logged.
ResumeAfterDone(r) ==
    /\ pc[r] = "yield_done"
    /\ pc' = [pc EXCEPT ![r] = after_done_marker]
    /\ completion_logs' = [completion_logs EXCEPT ![r] =
            IF after_done_marker = "done"
            THEN Append(@, log_request_complete(200, TRUE, prompt_tokens[r],
                                                completion_tokens[r], ""))
            ELSE @]
    /\ UNCHANGED <<config, req, current_user, resp, x_request_id, frames,
                   upstream_calls, payload, http_stream, lines, stream_locals,
                   ollama_response, upstream_failure, unclassified, cancelled, late,
                   connection>>

\* The generator resumes after the inline error frame: data: [DONE].
ResumeAfterError(r) ==
    /\ pc[r] = "yield_error"
    /\ frames' = [frames EXCEPT ![r] = Append(@, DoneFrame)]
    /\ pc' = [pc EXCEPT ![r] = "yield_error_done"]
    /\ UNCHANGED <<config, req, current_user, resp, x_request_id, upstream_calls,
                   payload, http_stream, completion_logs, lines, stream_locals,
                   ollama_response, upstream_failure, unclassified, cancelled, late,
                   connection>>

\* The generator resumes after the error path's data: [DONE] and returns.
ResumeAfterErrorDone(r) ==
    /\ pc[r] = "yield_error_done"
    /\ pc' = [pc EXCEPT ![r] = "done"]
    /\ UNCHANGED <<config, req, current_user, resp, x_request_id, frames,
                   upstream_calls, payload, http_stream, completion_logs, lines,
                   stream_locals, ollama_response, upstream_failure, unclassified,
                   cancelled, late, connection>>

\* The caller disconnects: the transport cancels the task at its suspension
\* point.  CancelledError / GeneratorExit are not Exception, so no except
\* clause of the generator runs.  A task cancelled while it awaits a line
\* unwinds through the client and out of the context; a task cancelled while
\* the transport holds a frame leaves both generators suspended at their yield.
Disconnect_caught(r) ==
    /\ pc[r] \in StreamSuspended
    /\ cancelled' = [cancelled EXCEPT ![r] = TRUE]
    /\ connection' = [connection EXCEPT ![r] = IF pc[r] = "reading" THEN "exited" ELSE @]
    /\ StreamFails(r, "CancelledError")
    /\ UNCHANGED <<config, req, current_user, resp, x_request_id, upstream_calls,
                   payload, http_stream, lines, stream_locals, ollama_response,
                   upstream_failure, unclassified, late>>

Disconnect(r) ==
    /\ pc[r] \in StreamSuspended
    /\ cancelled' = [cancelled EXCEPT ![r] = TRUE]
    /\ connection' = [connection EXCEPT ![r] = IF pc[r] = "reading" THEN "exited" ELSE @]
    /\ pc' = [pc EXCEPT ![r] = "done"]
    /\ UNCHANGED <<config, req, current_user, resp, x_request_id, frames,
                   upstream_calls, payload, http_stream, completion_logs, lines,
                   stream_locals, ollama_response, upstream_failure, unclassified, late>>

\* The client's generator was left suspended inside the context and nothing
\* refers to it any more (the transcoder's loop was left by break or by an
\* exception, the handler returned, or the response was dropped): the event
\* loop's asyncgen finalizer schedules its aclose(), which raises GeneratorExit
\* at the yield and leaves the context.
Finalize(r) ==
    /\ pc[r] \in {"done", "yield_error", "yield_error_done"}
    /\ connection[r] = "open"
    /\ connection' = [connection EXCEPT ![r] = "exited"]
    /\ UNCHANGED <<config, pc, req, current_user, resp, x_request_id, frames,
                   upstream_calls, payload, http_stream, completion_logs, lines,
                   stream_locals, ollama_response, upstream_failure, unclassified,
                   cancelled, late>>

\* The transcoder has seen a done=true line and reads no more (the client's
\* generator stays suspended at its yield); the backend sends another done=true
\* line all the same, which nothing reads.
LateLine(r) ==
    /\ pc[r] \in {"yield_chunk", "yield_final", "yield_done", "done"}
    /\ GetDone(ollama_chunk[r])
    /\ late[r] < MaxLate
    /\ late' = [late EXCEPT ![r] = @ + 1]
    /\ UNCHANGED <<config, pc, req, current_user, resp, x_request_id, frames,
                   upstream_calls, payload, http_stream, completion_logs, lines,
                   stream_locals, ollama_response, upstream_failure, unclassified,
                   cancelled, connection>>

Next ==
    \E r \in Reqs :
        \/ Receive(r)
        \/ ListModels(r)
        \/ HealthCheck(r)
        \/ NonStreamResponse(r)
        \/ StreamStart(r)
        \/ Connect(r)
        \/ ReadLine(r)
        \/ StreamTransportError(r)
        \/ EndOfStream(r)
        \/ ResumeAfterChunk(r)
        \/ ResumeAfterFinal(r)
        \/ ResumeAfterDone(r)
        \/ ResumeAfterError(r)
        \/ ResumeAfterErrorDone(r)
        \/ Disconnect(r)
        \/ Finalize(r)
        \/ LateLine(r)

\* The gateway under concurrent requests, models.yaml left as deployed.
Spec == Init /\ [][Next]_vars

\* ------------------------------------------------------------ one call, wide inputs
\* One call at a time, drawn from the wide input sets: requests that set the
\* generation parameters, direct calls of the client with extra keyword
\* parameters, and backend lines whose message is null.
Solo == {"r1"}

NextWide ==
    \E r \in Solo :
        \/ ReceiveFrom(r, ParamRequests)
        \/ DirectCall(r)
        \/ NonStreamResponse(r)
        \/ StreamStart(r)
        \/ Connect(r)
        \/ ReadLineFrom(r, WideBackendLines)
        \/ StreamTransportError(r)
        \/ EndOfStream(r)
        \/ ResumeAfterChunk(r)
        \/ ResumeAfterFinal(r)
        \/ ResumeAfterDone(r)
        \/ ResumeAfterError(r)
        \/ ResumeAfterErrorDone(r)
        \/ Disconnect(r)
        \/ Finalize(r)
        \/ LateLine(r)

WideSpec == Init /\ [][NextWide]_vars

\* WideSpec with the event loop running what the finalizer scheduled.
WideFairSpec == WideSpec /\ \A r \in Solo : WF_vars(Finalize(r))

\* ------------------------------------------------------------ models.yaml edited
\* Requests for each model name of either version of models.yaml and for one
\* of neither.
ConfigRequests ==
    {[PlainRequest EXCEPT !.model = m, !.stream = s] :
        m \in {"llama3", "mistral", "phi3", "gpt-x"}, s \in BOOLEAN}

\* The gateway under concurrent requests while models.yaml is edited; the
\* backend's streams are a single done=true line.
NextConfig ==
    \/ ModelsFileChanges
    \/ ReloadConfig
    \/ \E r \in Reqs :
        \/ ReceiveFrom(r, ConfigRequests)
        \/ ListModels(r)
        \/ HealthCheck(r)
        \/ NonStreamResponse(r)
        \/ StreamStart(r)
        \/ Connect(r)
        \/ ReadLineFrom(r, {LloDoneLine})
        \/ StreamTransportError(r)
        \/ EndOfStream(r)
        \/ ResumeAfterChunk(r)
        \/ ResumeAfterFinal(r)
        \/ ResumeAfterDone(r)
        \/ ResumeAfterError(r)
        \/ ResumeAfterErrorDone(r)
        \/ Disconnect(r)
        \/ Finalize(r)
        \/ LateLine(r)

ConfigSpec == Init /\ [][NextConfig]_vars

\* ------------------------------------------------------------ several routes
\* Requests for each route of RoutesYaml and for a model that has none.
RouteRequests ==
    {[PlainRequest EXCEPT !.model = m, !.stream = s] :
        m \in {"llama3", "llama3-gpu", "mistral", "gpt-x"}, s \in BOOLEAN}

\* The lines of the backends' streams in RouteSpec.
RouteBackendLines == {HeLine, LloDoneLine}

\* The gateway under concurrent requests for the routes of RoutesYaml.
NextRoute ==
    \E r \in Reqs :
        \/ ReceiveFrom(r, RouteRequests)
        \/ NonStreamResponse(r)
        \/ StreamStart(r)
        \/ Connect(r)
        \/ ReadLineFrom(r, RouteBackendLines)
        \/ StreamTransportError(r)
        \/ EndOfStream(r)
        \/ ResumeAfterChunk(r)
        \/ ResumeAfterFinal(r)
        \/ ResumeAfterDone(r)
        \/ ResumeAfterError(r)
        \/ ResumeAfterErrorDone(r)
        \/ Disconnect(r)
        \/ Finalize(r)
        \/ LateLine(r)

RouteSpec == InitRoutes /\ [][NextRoute]_vars

\* ------------------------------------------------------------ pairs of requests
\* Two requests drawn from VariantRequests, each handled up to the upstream
\* call it issues: the non-streaming handler on arrival, the streaming one
\* when the transport starts the generator.
NextPair ==
    \E r \in Reqs :
        \/ ReceiveFrom(r, VariantRequests)
        \/ StreamStart(r)

PairSpec == Init /\ [][NextPair]_vars

\* ------------------------------------------------------------ vocabulary of the properties
\* The three ways a request lacks a valid credential.
MissingCredential(c) == c = NoCred
UnknownCredential(c) == c # NoCred /\ c \notin DOMAIN KeyTable
DisabledCredential(c) == c \in DOMAIN KeyTable /\ ~KeyTable[c].enabled

Unauthenticated(c) ==
    MissingCredential(c) \/ UnknownCredential(c) \/ DisabledCredential(c)

Arrived(r) == pc[r] # "idle"
IsChat(r) == req[r].path = "/v1/chat/completions"

\* A streaming response: the handler returned the StreamingResponse.
Streaming(r) == IsChat(r) /\ resp[r].shape = "stream"

CountFrame(fs, f) == Cardinality({i \in 1..Len(fs) : fs[i] = f})
CountKind(fs, kind) == Cardinality({i \in 1..Len(fs) : fs[i].kind = kind})

\* The request identifier the handlers of task r work with, and the terminal
\* chunk of its stream.
RequestId(r) == get_request_id(Scope(r))
FinalChunkOf(r) ==
    ChatCompletionChunk(completion_id(RequestId(r)), req[r].model, FinalChunk)

IsDoneLine(line) == line.raw = "json" /\ GetDone(line.data)
WellFormed(line) == line.raw = "json"

\* ------------------------------------------------------------ C1
\* C1: a request to POST /v1/chat/completions or GET /v1/models that presents no
\* credential, an unknown credential or a disabled credential is answered 401,
\* and no upstream HTTP call is ever issued for it.
C1_NoCredentialNoUpstreamCall ==
    \A r \in Reqs :
        ( /\ Arrived(r)
          /\ req[r].path \in {"/v1/chat/completions", "/v1/models"}
          /\ Unauthenticated(req[r].cred) )
            => /\ resp[r].status = 401
               /\ upstream_calls[r] = 0

\* A disabled key on the chat endpoint and an unknown key on the models
\* endpoint, both rejected.
C1_Witness ==
    \E r1, r2 \in Reqs :
        /\ IsChat(r1) /\ DisabledCredential(req[r1].cred)
        /\ req[r1].model \in DOMAIN ModelTable /\ ValidChatCompletionRequest(req[r1])
        /\ resp[r1].status = 401 /\ upstream_calls[r1] = 0
        /\ req[r2].path = "/v1/models" /\ UnknownCredential(req[r2].cred)
        /\ resp[r2].status = 401

\* ------------------------------------------------------------ C2
\* C2: two requests that differ only in that one presents a disabled key and the
\* other a key absent from the key table get identical caller-visible responses
\* (status, headers, message).
C2_DisabledKeyNotRevealed ==
    \A r1, r2 \in Reqs :
        ( /\ pc[r1] = "done" /\ pc[r2] = "done"
          /\ DisabledCredential(req[r1].cred)
          /\ UnknownCredential(req[r2].cred)
          /\ [req[r1] EXCEPT !.cred = ""] = [req[r2] EXCEPT !.cred = ""] )
            => resp[r1] = resp[r2]

\* ------------------------------------------------------------ C3
\* C3: a streaming response that the caller did not cancel ends with the frame
\* data: [DONE], however the backend stream ended.
C3_StreamEndsWithDoneMarker ==
    \A r \in Reqs :
        (Streaming(r) /\ pc[r] = "done" /\ ~cancelled[r])
            => /\ frames[r] # <<>>
               /\ frames[r][Len(frames[r])] = DoneFrame

\* ------------------------------------------------------------ C4
\* C4: per stream the synthetic terminal chunk and the [DONE] marker are each
\* produced at most once; only the first done=true line terminates the stream:
\* no line is read after it, and after its chunk nothing is emitted but the
\* terminal chunk and the marker, whatever the backend still sends.
C4_TerminatorAtMostOnce ==
    \A r \in Reqs :
        /\ CountFrame(frames[r], FinalChunkOf(r)) <= 1
        /\ CountFrame(frames[r], DoneFrame) <= 1
        /\ \A i \in 1..Len(lines[r]) : IsDoneLine(lines[r][i]) => i = Len(lines[r])
        /\ (lines[r] # <<>> /\ IsDoneLine(lines[r][Len(lines[r])]))
            => LET n == Len(SelectSeq(lines[r], WellFormed))
               IN  SubSeq(frames[r], n + 1, Len(frames[r]))
                       \in {<<>>, <<FinalChunkOf(r)>>, <<FinalChunkOf(r), DoneFrame>>}

\* A finished stream whose backend sent a second done=true line.
C4_Witness ==
    \E r \in Reqs :
        /\ Streaming(r) /\ pc[r] = "done" /\ ~cancelled[r]
        /\ late[r] >= 1
        /\ Len(lines[r]) >= 2
        /\ SubSeq(frames[r], Len(frames[r]) - 1, Len(frames[r]))
               = <<FinalChunkOf(r), DoneFrame>>

\* ------------------------------------------------------------ C5
RECURSIVE ConcatDelta(_)
ConcatDelta(fs) ==
    IF fs = <<>> THEN ""
    ELSE (IF fs[1].kind = "chunk" /\ fs[1].has_content THEN fs[1].content ELSE "")
             \o ConcatDelta(Tail(fs))

RECURSIVE ConcatMessage(_)
ConcatMessage(ls) ==
    IF ls = <<>> THEN ""
    ELSE GetMessageContent(ls[1].data).content \o ConcatMessage(Tail(ls))

\* C5: for well-formed backend lines ending with the first done=true line, the
\* delta.content of the emitted chunks, concatenated in order, equals the
\* message.content of the lines, concatenated in order.
C5_NoTextLost ==
    \A r \in Reqs :
        ( /\ Streaming(r) /\ pc[r] = "done" /\ ~cancelled[r]
          /\ lines[r] # <<>>
          /\ \A i \in 1..Len(lines[r]) : WellFormed(lines[r][i])
          /\ IsDoneLine(lines[r][Len(lines[r])]) )
            => ConcatDelta(frames[r]) = ConcatMessage(lines[r])

\* ------------------------------------------------------------ C6
\* Two streams are the same but for malformed lines: the same request, no
\* disconnect of the caller, the same fate of the upstream call, the same
\* position of the transcoder, and the lines of r2 are the lines of r1 with the
\* malformed ones removed.
SameButMalformed(r1, r2) ==
    /\ Streaming(r1) /\ Streaming(r2)
    /\ req[r1] = req[r2]
    /\ pc[r1] = pc[r2]
    /\ ~cancelled[r1] /\ ~cancelled[r2]
    /\ upstream_failure[r1] = upstream_failure[r2]
    /\ lines[r2] = SelectSeq(lines[r1], WellFormed)

\* The step of r reads a malformed line.
ReadsMalformed(r) ==
    /\ Len(lines'[r]) = Len(lines[r]) + 1
    /\ ~WellFormed(lines'[r][Len(lines'[r])])

\* C6: a backend line that fails to parse as JSON is silently discarded.  Reading
\* it emits no frame, ends nothing, logs nothing, raises no error and leaves the
\* first-chunk flag and the counters alone; and the frames of a stream equal
\* those of the same stream with the malformed lines removed.
C6_MalformedLineDiscarded ==
    /\ [][\A r \in Reqs :
            ReadsMalformed(r)
                => /\ pc'[r] = "reading"
                   /\ frames'[r] = frames[r]
                   /\ first_chunk'[r] = first_chunk[r]
                   /\ prompt_tokens'[r] = prompt_tokens[r]
                   /\ completion_tokens'[r] = completion_tokens[r]
                   /\ completion_logs'[r] = completion_logs[r]
                   /\ upstream_failure'[r] = upstream_failure[r]]_vars
    /\ [](\A r1, r2 \in Reqs :
            SameButMalformed(r1, r2)
                => /\ frames[r1] = frames[r2]
                   /\ first_chunk[r1] = first_chunk[r2]
                   /\ completion_logs[r1] = completion_logs[r2])

\* he, a malformed line, llo+done against he, llo+done: both streams finished
\* with the same frames.
C6_Witness ==
    \E r1, r2 \in Reqs :
        /\ SameButMalformed(r1, r2)
        /\ pc[r1] = "done" /\ ~cancelled[r1]
        /\ lines[r1] = <<HeLine, MalformedLine, LloDoneLine>>
        /\ lines[r2] = <<HeLine, LloDoneLine>>
        /\ Len(frames[r1]) = 4
        /\ frames[r1] = frames[r2]

C8_StreamFailureInline ==
    \A r \in Reqs :
        (Streaming(r) /\ upstream_failure[r] # NoFailure /\ ~cancelled[r])
            => /\ resp[r] = StreamingStarted(RequestId(r))
               /\ pc[r] \in {"yield_error", "yield_error_done", "done"}
               /\ CountKind(frames[r], "error") = 1
               /\ CountFrame(frames[r], FinalChunkOf(r)) = 0
               /\ pc[r] = "yield_error"
                    => /\ frames[r][Len(frames[r])].kind = "error"
                       /\ CountFrame(frames[r], DoneFrame) = 0
               /\ pc[r] # "yield_error"
                    => /\ Len(frames[r]) >= 2
                       /\ frames[r][Len(frames[r]) - 1].kind = "error"
                       /\ frames[r][Len(frames[r])] = DoneFrame
                       /\ CountFrame(frames[r], DoneFrame) = 1

\* One stream failed between lines and one before the first line, both ended
\* with the error frame and the marker.
C8_Witness ==
    \E r1, r2 \in Reqs :
        /\ Streaming(r1) /\ pc[r1] = "done" /\ ~cancelled[r1]
        /\ upstream_failure[r1] = StreamBroken
        /\ lines[r1] = <<HeLine, HeLine>>
        /\ Len(frames[r1]) = 4
        /\ frames[r1][3].kind = "error" /\ frames[r1][4] = DoneFrame
        /\ Streaming(r2) /\ pc[r2] = "done" /\ ~cancelled[r2]
        /\ upstream_failure[r2] = Failure("connect_error", "")
        /\ Len(frames[r2]) = 2
        /\ frames[r2][1].kind = "error" /\ frames[r2][2] = DoneFrame

\* ------------------------------------------------------------ C9
\* C9: every exit path of an inbound chat-completion call emits exactly one
\* request-completion log event.
C9_ExactlyOneCompletionLog ==
    \A r \in Reqs :
        (IsChat(r) /\ pc[r] = "done") => Len(completion_logs[r]) = 1

\* ------------------------------------------------------------ C10
\* C10: for a chat-completion request whose messages list is empty no upstream
\* call is issued.
C10_EmptyMessagesNoUpstreamCall ==
    \A r \in Reqs :
        (IsChat(r) /\ Arrived(r) /\ req[r].messages = <<>>)
            => upstream_calls[r] = 0

\* ------------------------------------------------------------ C11
\* A numeric field of the parameters is out of its range: temperature outside
\* [0, 1], max_tokens <= 0, a penalty outside [-2, 2] (decimals in tenths).
Below(value, lo) == value # None /\ value[1] < lo
Above(value, hi) == value # None /\ value[1] > hi

OutOfRange(ps) ==
    \/ Below(ps.temperature, 0) \/ Above(ps.temperature, 10)
    \/ Below(ps.max_tokens, 1)
    \/ Below(ps.frequency_penalty, -20) \/ Above(ps.frequency_penalty, 20)
    \/ Below(ps.presence_penalty, -20) \/ Above(ps.presence_penalty, 20)

\* Every field the request sets is exactly on a bound of its range.
OnBounds(ps) ==
    /\ ps # NoParams
    /\ ps.temperature \in {None, Some(0), Some(10)}
    /\ ps.max_tokens \in {None, Some(1)}
    /\ ps.top_p \in {None, Some(0), Some(10)}
    /\ ps.frequency_penalty \in {None, Some(-20), Some(20)}
    /\ ps.presence_penalty \in {None, Some(-20), Some(20)}

\* C11: an authenticated chat-completion request with a numeric field out of
\* range is rejected before the handler runs (no upstream call, no payload, no
\* log event); a request whose fields are exactly on their bounds is accepted:
\* a non-streaming one reaches the upstream call, a streaming one is answered
\* with the stream.
C11_OutOfRangeRejected ==
    \A r \in Reqs :
        (IsChat(r) /\ Arrived(r) /\ ~Unauthenticated(req[r].cred))
            => /\ OutOfRange(req[r].params)
                    => /\ resp[r] = ValidationRejected
                       /\ pc[r] = "done"
                       /\ upstream_calls[r] = 0
                       /\ payload[r] = None
                       /\ completion_logs[r] = <<>>
               /\ ( /\ OnBounds(req[r].params)
                    /\ \A i \in 1..Len(req[r].messages) :
                            req[r].messages[i].role \in {"system", "user", "assistant"} )
                    => /\ resp[r] # ValidationRejected
                       /\ req[r].stream => Streaming(r)
                       /\ ~req[r].stream => upstream_calls[r] = 1

\* A request with temperature on its bound and max_tokens 0 was rejected.
C11_Witness ==
    \E r \in Reqs :
        /\ IsChat(r) /\ pc[r] = "done"
        /\ req[r].params.temperature = Some(0)
        /\ req[r].params.max_tokens = Some(0)
        /\ resp[r] = ValidationRejected
        /\ upstream_calls[r] = 0

\* ------------------------------------------------------------ C12
\* sub occurs in the text s.
Contains(s, sub) ==
    \E i \in 1..(Len(s) - Len(sub) + 1) : SubSeq(s, i, i + Len(sub) - 1) = sub

\* The text names every key of the route table as deployed, verbatim.
ListsConfiguredModels(text) ==
    \A i \in 1..Len(ModelOrder) : Contains(text, "'" \o ModelOrder[i] \o "'")

\* An authenticated, well-formed chat-completion request.
Admitted(r) ==
    /\ IsChat(r) /\ Arrived(r)
    /\ ~Unauthenticated(req[r].cred)
    /\ resp[r] # ValidationRejected

\* C12: for a model name that is not an exact, case-sensitive key of the route
\* table no upstream call is issued, and the caller-visible error (the 503
\* body of a non-streaming request, the first frame of a streaming one, which
\* is the inline error frame) names every configured model as keyed.
C12_RouteMissListsModels ==
    \A r \in Reqs :
        (Admitted(r) /\ req[r].model \notin {"llama3", "mistral"})
            => /\ upstream_calls[r] = 0
               /\ payload[r] = None
               /\ ~req[r].stream
                    => /\ resp[r].status = 503
                       /\ ListsConfiguredModels(resp[r].message)
               /\ (req[r].stream /\ pc[r] # "stream_start" /\ ~cancelled[r])
                    => frames[r] # <<>>
               /\ (req[r].stream /\ frames[r] # <<>>)
                    => /\ frames[r][1].kind = "error"
                       /\ ListsConfiguredModels(frames[r][1].message)

\* A non-streaming request for Llama3 and a streaming request for gpt-x, both
\* answered with the list.
C12_Witness ==
    \E r1, r2 \in Reqs :
        /\ Admitted(r1) /\ ~req[r1].stream /\ req[r1].model = "Llama3"
        /\ resp[r1].status = 503
        /\ Contains(resp[r1].message, "['llama3', 'mistral']")
        /\ Admitted(r2) /\ req[r2].stream /\ req[r2].model = "gpt-x"
        /\ pc[r2] = "done" /\ Len(frames[r2]) = 2
        /\ Contains(frames[r2][1].message, "['llama3', 'mistral']")

\* ------------------------------------------------------------ C13
\* The model names of models.yaml as it is on disk, as a route miss prints them.
LiveList ==
    IF models_file = ModelsYaml THEN "['llama3', 'mistral']" ELSE "['llama3', 'phi3']"

IsRouteMiss(text) == Contains(text, "not found. Available models: ")

\* C13: the model names given on a route miss (in the 503 body or in the first
\* frame of a stream) and by /health are those of models.yaml as it is on disk
\* when the lookup is made, whether or not reload_config was called since the
\* file changed.
C13_ListReflectsLiveTable ==
    [][\A r \in Reqs :
        /\ (resp[r] = NoResponse /\ resp'[r].shape = "health")
                => resp'[r].models = models_file.keys
        /\ (resp[r] = NoResponse /\ IsRouteMiss(resp'[r].message))
                => Contains(resp'[r].message, LiveList)
        /\ (frames[r] = <<>> /\ frames'[r] # <<>>
                /\ IsRouteMiss(frames'[r][1].message))
                => Contains(frames'[r][1].message, LiveList)]_vars

\* ------------------------------------------------------------ C14
\* temperature or max_tokens is given (not None; 0 is a value).
OptionsGiven(ps) == ps.temperature # None \/ ps.max_tokens # None

\* The options object the two parameters fold into.
FoldedOptions(ps) ==
    IF ps.temperature # None /\ ps.max_tokens # None
    THEN [temperature |-> ps.temperature[1], num_predict |-> ps.max_tokens[1]]
    ELSE IF ps.temperature # None
    THEN [temperature |-> ps.temperature[1]]
    ELSE [num_predict |-> ps.max_tokens[1]]

\* The keys the translator sets itself for a request.
TranslatorKeys(ps) ==
    {"model", "messages", "stream"}
        \cup (IF OptionsGiven(ps) THEN {"options"} ELSE {})

\* C14: in every payload sent to the backend, the translator puts an options
\* object iff temperature or max_tokens is given, holding temperature under
\* temperature and max_tokens under num_predict and nothing else; model,
\* messages and stream are the backend's model name, the request's messages
\* and its stream flag; every extra keyword whose key the translator did not
\* set is in the payload with its value, and no other key is.  (So without an
\* extra keyword named options the payload has options iff one of the two
\* parameters is given, and with one the translator's options win.)
C14_RequestTranslation ==
    \A r \in Reqs :
        payload[r] # None
            => LET p == payload[r][1]
                   q == req[r]
               IN  /\ DOMAIN p = TranslatorKeys(q.params) \cup DOMAIN q.kwargs
                   /\ p["model"] = ModelTable[q.model].model
                   /\ p["stream"] = q.stream
                   /\ Len(p["messages"]) = Len(q.messages)
                   /\ OptionsGiven(q.params)
                        => p["options"] = FoldedOptions(q.params)
                   /\ "options" \notin DOMAIN q.kwargs
                        => ("options" \in DOMAIN p <=> OptionsGiven(q.params))
                   /\ \A k \in DOMAIN q.kwargs \ TranslatorKeys(q.params) :
                        p[k] = q.kwargs[k]

\* A call with temperature 0 and the extra keywords options and keep_alive:
\* the payload's options are the translator's, keep_alive is copied.
C14_Witness ==
    \E r \in Reqs :
        /\ payload[r] # None
        /\ req[r].params.temperature = Some(0)
        /\ req[r].params.max_tokens = None
        /\ DOMAIN req[r].kwargs = {"options", "keep_alive"}
        /\ payload[r][1]["options"] = [temperature |-> 0]
        /\ payload[r][1]["keep_alive"] = "5m"

\* ------------------------------------------------------------ C15
\* C15: the messages sent to the backend are the request's messages one for
\* one, in the same order, each with the same role and content; and the
\* non-streaming response and every chunk of a stream carry the model name the
\* caller asked for, not the backend's name for it.
C15_RoundTrip ==
    \A r \in Reqs :
        IsChat(r)
            => /\ payload[r] # None
                    => LET sent == payload[r][1]["messages"]
                       IN  /\ Len(sent) = Len(req[r].messages)
                           /\ \A i \in 1..Len(sent) :
                                /\ sent[i].role = req[r].messages[i].role
                                /\ sent[i].content = req[r].messages[i].content
               /\ resp[r].shape = "completion" => resp[r].model = req[r].model
               /\ \A i \in 1..Len(frames[r]) :
                    frames[r][i].kind = "chunk" => frames[r][i].model = req[r].model

\* A finished stream of four frames for llama3, served by llama3:8b, whose
\* request had a system and a user message.
C15_Witness ==
    \E r \in Reqs :
        /\ Streaming(r) /\ pc[r] = "done" /\ ~cancelled[r]
        /\ req[r].model = "llama3"
        /\ payload[r] # None
        /\ payload[r][1]["model"] = "llama3:8b"
        /\ payload[r][1]["messages"][1].role = "system"
        /\ payload[r][1]["messages"][2].role = "user"
        /\ lines[r] = <<HeLine, LloDoneLine>>
        /\ Len(frames[r]) = 4
        /\ frames[r][3].model = "llama3"

\* ------------------------------------------------------------ C16
\* The non-streaming call of task r returned a JSON object.
BackendAnswered(r) ==
    /\ IsChat(r) /\ ~req[r].stream /\ pc[r] = "done"
    /\ upstream_calls[r] = 1
    /\ upstream_failure[r] = NoFailure
    /\ ollama_response[r].json = "object"

\* C16: for every object the backend answers a non-streaming call with, the
\* response has exactly one choice, of role assistant, whose content is the
\* backend's message content, or the empty string when the message or its
\* content is missing (never a failure), and whose finish_reason is stop iff
\* the backend's done flag is true.
C16_ResponseTranslation ==
    \A r \in Reqs :
        BackendAnswered(r)
            => /\ resp[r].status = 200
               /\ resp[r].shape = "completion"
               /\ resp[r].choices = 1
               /\ resp[r].role = "assistant"
               /\ resp[r].content =
                    (IF ollama_response[r].message = "object"
                            /\ ollama_response[r].has_content
                     THEN ollama_response[r].content ELSE "")
               /\ resp[r].finish_reason = "stop" <=> ollama_response[r].done = "true"

\* ------------------------------------------------------------ C17
\* C17: in every non-streaming response, usage.prompt_tokens is the backend's
\* prompt_eval_count (0 if absent), usage.completion_tokens is its eval_count
\* (0 if absent), and usage.total_tokens is their sum.
C17_UsageCounters ==
    \A r \in Reqs :
        (IsChat(r) /\ resp[r].shape = "completion")
            => /\ resp[r].prompt_tokens =
                    (IF ollama_response[r].has_prompt_eval_count
                     THEN ollama_response[r].prompt_eval_count ELSE 0)
               /\ resp[r].completion_tokens =
                    (IF ollama_response[r].has_eval_count
                     THEN ollama_response[r].eval_count ELSE 0)
               /\ resp[r].total_tokens
                    = resp[r].prompt_tokens + resp[r].completion_tokens

\* One response to a body counting 3 and 2, one to a body with no
\* prompt_eval_count.
C17_Witness ==
    \E r1, r2 \in Reqs :
        /\ resp[r1].shape = "completion"
        /\ ollama_response[r1].prompt_eval_count = 3
        /\ ollama_response[r1].eval_count = 2
        /\ resp[r1].total_tokens = 5
        /\ resp[r2].shape = "completion"
        /\ ~ollama_response[r2].has_prompt_eval_count
        /\ ollama_response[r2].has_eval_count
        /\ resp[r2].prompt_tokens = 0
        /\ resp[r2].total_tokens = 2

\* ------------------------------------------------------------ C18
\* The completion ids task r has given out: the id of its non-streaming
\* response and the ids of the chunks of its stream.
CompletionIds(r) ==
    (IF resp[r].shape = "completion" THEN {resp[r].id} ELSE {})
        \cup {frames[r][i].id : i \in {j \in 1..Len(frames[r]) :
                                            frames[r][j].kind = "chunk"}}

\* C18: for every chat-completion request the identifier in the x-request-id
\* header of the response is the one inside the completion id
\* chatcmpl-<request-id> of the non-streaming response and of every chunk, so
\* two requests never share a completion id.
C18_RequestIdInCompletionId ==
    /\ \A r \in Reqs :
            IsChat(r) => \A id \in CompletionIds(r) : id = "chatcmpl-" \o x_request_id[r]
    /\ \A r1, r2 \in Reqs :
            (r1 # r2 /\ IsChat(r1) /\ IsChat(r2))
                => CompletionIds(r1) \cap CompletionIds(r2) = {}

\* ------------------------------------------------------------ C19
\* The error messages the caller of task r can see: the message of a non-2xx
\* body and the messages of the inline error frames.
VisibleErrorMessages(r) ==
    (IF resp[r].status >= 400 THEN {resp[r].message} ELSE {})
        \cup {frames[r][i].message : i \in {j \in 1..Len(frames[r]) :
                                                 frames[r][j].kind = "error"}}

\* C19: when an exception that is not an upstream error is raised while a
\* chat-completion request is handled, in the non-streaming handler or in the
\* streaming generator, every error message the caller sees is the fixed text
\* "Internal server error" and none contains the exception's message.
C19_NoInternalDetailLeaks ==
    \A r \in Reqs :
        (IsChat(r) /\ unclassified[r] # "")
            => \A text \in VisibleErrorMessages(r) :
                /\ text = "Internal server error"
                /\ ~Contains(text, unclassified[r])

\* ------------------------------------------------------------ C20
\* C20: every non-2xx JSON response (401, 503, 500) has the top-level body
\* {error: {message, type, code}}, with type one of internal_error,
\* service_unavailable, validation_error.
C20_ErrorEnvelope ==
    \A r \in Reqs :
        (resp[r].status \in {401, 500, 503})
            => /\ resp[r].shape = "error"
               /\ resp[r].type \in {"internal_error", "service_unavailable",
                                     "validation_error"}

\* ------------------------------------------------------------ C21
\* C21: the handler of POST /v1/chat/completions or GET /v1/models receives a
\* key record exactly when the request presents a credential that is an exact
\* key of the key table whose record has enabled = true, and the record is that
\* key's; a missing, an unknown and a disabled credential are each answered 401,
\* and every 401 carries the header WWW-Authenticate: Bearer.
C21_AuthenticateOutcome ==
    \A r \in Reqs :
        ( /\ Arrived(r)
          /\ req[r].path \in {"/v1/chat/completions", "/v1/models"} )
            => /\ IF /\ req[r].cred # NoCred
                     /\ req[r].cred \in DOMAIN KeyTable
                     /\ KeyTable[req[r].cred].enabled
                  THEN /\ current_user[r] = Some(KeyTable[req[r].cred])
                       /\ resp[r].status # 401
                  ELSE /\ current_user[r] = None
                       /\ resp[r].status = 401
               /\ resp[r].status = 401
                    => "WWW-Authenticate: Bearer" \in resp[r].headers

\* One task was handed alice's record while the other, presenting the disabled
\* key of bob, was answered 401 with the challenge header.
C21_Witness ==
    \E r1, r2 \in Reqs :
        /\ Arrived(r1) /\ req[r1].cred = "sk-good"
        /\ current_user[r1] = Some(KeyTable["sk-good"])
        /\ current_user[r1][1].name = "alice"
        /\ Arrived(r2) /\ req[r2].cred = "sk-off"
        /\ current_user[r2] = None
        /\ resp[r2].status = 401
        /\ "WWW-Authenticate: Bearer" \in resp[r2].headers

\* ------------------------------------------------------------ C22
\* C22: at most one upstream HTTP call is issued for a chat-completion request,
\* whatever the max_retries of its route and however the call fails: once a
\* call has failed, the count of calls stays one.
C22_NoAutomaticRetry ==
    \A r \in Reqs :
        /\ upstream_calls[r] <= 1
        /\ upstream_failure[r] # NoFailure => upstream_calls[r] = 1

\* A non-streaming call on a route with max_retries 3 timed out and a streaming
\* call on a route with max_retries 5 was answered 500; both requests are over
\* and each made one call.
C22_Witness ==
    \E r1, r2 \in Reqs :
        /\ pc[r1] = "done" /\ ~req[r1].stream /\ req[r1].model = "llama3"
        /\ models_file.table["llama3"].max_retries = 3
        /\ upstream_failure[r1] = Failure("timeout", "")
        /\ upstream_calls[r1] = 1
        /\ pc[r2] = "done" /\ req[r2].stream /\ req[r2].model = "mistral"
        /\ models_file.table["mistral"].max_retries = 5
        /\ upstream_failure[r2] = Failure("bad_status", "500")
        /\ upstream_calls[r2] = 1

\* ------------------------------------------------------------ C23
\* The well-formed lines task r has read, and the frames built from a line (the
\* chunks whose delta has a content field; the terminal chunk has none).
WellFormedLines(r) == SelectSeq(lines[r], WellFormed)
IsLineChunk(f) == f.kind = "chunk" /\ f.has_content
LineChunks(r) == SelectSeq(frames[r], IsLineChunk)

\* C23: frames follow the order of the backend's lines, one frame per well-formed
\* line.  At every moment, and so whenever the next line is about to be read,
\* the stream holds exactly one chunk for each well-formed line read so far, in
\* the lines' order and ahead of every other frame; the chunk of a line after
\* the first carries that line's content and nothing of another line's, and it
\* carries finish_reason stop exactly when its line is done=true.
C23_FrameOrder ==
    \A r \in Reqs :
        Streaming(r) =>
            LET wf == WellFormedLines(r)
                lc == LineChunks(r)
            IN  /\ Len(lc) = Len(wf)
                /\ \A i \in 1..Len(lc) : frames[r][i] = lc[i]
                /\ \A i \in 1..Len(lc) :
                      /\ lc[i].content = IF i = 1 THEN "" ELSE wf[i].data.content
                      /\ (lc[i].finish_reason = "stop") = (wf[i].data.done = "true")

\* A stream of three lines, a malformed one in the middle, whose two chunks
\* came out in the lines' order; and a finished stream of three well-formed
\* lines with three chunks ahead of the terminal chunk and the marker.
C23_Witness ==
    \E r1, r2 \in Reqs :
        /\ Streaming(r1) /\ lines[r1] = <<HeLine, MalformedLine, LloDoneLine>>
        /\ Len(LineChunks(r1)) = 2 /\ LineChunks(r1)[2].content = "llo"
        /\ Streaming(r2) /\ lines[r2] = <<HeLine, HeLine, LloDoneLine>>
        /\ pc[r2] = "done" /\ ~cancelled[r2]
        /\ Len(frames[r2]) = 5
        /\ frames[r2][2].content = "he" /\ frames[r2][3].content = "llo"
        /\ frames[r2][5] = DoneFrame

\* ------------------------------------------------------------ C24
\* C24: GET /health is answered 200 whatever credential the request presents or
\* lacks, with status healthy, a version and the configured model names in
\* their order; GET /v1/models without a valid credential is answered 401.
C24_HealthIsOpenModelsIsNot ==
    \A r \in Reqs :
        Arrived(r) =>
            /\ req[r].path = "/health" =>
                    /\ resp[r].status = 200
                    /\ resp[r].shape = "health"
                    /\ resp[r].health_status = "healthy"
                    /\ resp[r].version # ""
                    /\ resp[r].models = <<"llama3", "mistral">>
            /\ (req[r].path = "/v1/models" /\ Unauthenticated(req[r].cred)) =>
                    resp[r].status = 401

\* GET /health without a credential answered healthy while GET /v1/models
\* without a credential was refused.
C24_Witness ==
    \E r1, r2 \in Reqs :
        /\ req[r1].path = "/health" /\ req[r1].cred = NoCred
        /\ resp[r1].status = 200 /\ resp[r1].health_status = "healthy"
        /\ resp[r1].models = <<"llama3", "mistral">>
        /\ req[r2].path = "/v1/models" /\ req[r2].cred = NoCred
        /\ resp[r2].status = 401

\* ------------------------------------------------------------ C25
\* C25: in a stream, the first chunk and no other carries a role: it is the
\* role announcement (role assistant, content empty).  It is there as soon as
\* one well-formed line has been read, and a stream in which no well-formed
\* line was read holds no chunk with a role.
C25_RoleAnnouncedOnce ==
    \A r \in Reqs :
        Streaming(r) =>
            /\ \A i \in 1..Len(frames[r]) :
                  frames[r][i].kind = "chunk" =>
                    IF \A j \in 1..(i - 1) : frames[r][j].kind # "chunk"
                    THEN /\ frames[r][i].role = "assistant"
                         /\ frames[r][i].has_content
                         /\ frames[r][i].content = ""
                    ELSE frames[r][i].role = "none"
            /\ (\E i \in 1..Len(frames[r]) : frames[r][i].role = "assistant")
                    <=> (\E k \in 1..Len(lines[r]) : lines[r][k].raw = "json")

\* One stream skipped a malformed line, announced the role on the next line and
\* sent a later chunk without a role; another read malformed lines only and
\* ended without any chunk.
C25_Witness ==
    \E r1, r2 \in Reqs :
        /\ Streaming(r1) /\ lines[r1] = <<MalformedLine, HeLine, HeLine>>
        /\ Len(frames[r1]) = 2
        /\ frames[r1][1].role = "assistant" /\ frames[r1][1].content = ""
        /\ frames[r1][2].role = "none" /\ frames[r1][2].content = "he"
        /\ Streaming(r2) /\ lines[r2] = <<MalformedLine, MalformedLine>>
        /\ pc[r2] = "done" /\ ~cancelled[r2] /\ frames[r2] = <<>>

\* ------------------------------------------------------------ C26
\* A stream that ran to its end: the marker was sent after no error frame and
\* the caller stayed connected.
NormallyTerminated(r) ==
    /\ Streaming(r) /\ pc[r] = "done" /\ ~cancelled[r]
    /\ CountKind(frames[r], "error") = 0
    /\ CountFrame(frames[r], DoneFrame) = 1

\* C26: a chunk that follows the role announcement and is not the terminal
\* chunk carries content only, neither a role nor a finish_reason; in a
\* normally terminated stream finish_reason stop is on exactly one chunk, the
\* terminal chunk, whose delta is empty.
C26_StopOnTerminalChunkOnly ==
    \A r \in Reqs :
        Streaming(r) =>
            /\ \A i \in 2..Len(frames[r]) :
                  (frames[r][i].kind = "chunk" /\ frames[r][i] # FinalChunkOf(r))
                    => /\ frames[r][i].role = "none"
                       /\ frames[r][i].finish_reason = "none"
            /\ NormallyTerminated(r) =>
                  /\ Cardinality({i \in 1..Len(frames[r]) :
                          /\ frames[r][i].kind = "chunk"
                          /\ frames[r][i].finish_reason = "stop"}) = 1
                  /\ \A i \in 1..Len(frames[r]) :
                        frames[r][i].finish_reason = "stop"
                            => frames[r][i] = FinalChunkOf(r)

\* ------------------------------------------------------------ C27
\* C27: in a normally terminated stream the done=true line gives a content
\* chunk of its own only when its content is not empty, and that chunk carries
\* the content; then come the terminal chunk and the marker.  A done=true line
\* with empty content gives the terminal chunk and the marker and nothing else.
C27_DoneLineChunkOnlyIfContent ==
    \A r \in Reqs :
        NormallyTerminated(r) =>
            LET wf == WellFormedLines(r)
                lc == LineChunks(r)
                n == Len(frames[r])
                d == wf[Len(wf)].data
            IN  /\ n >= 2
                /\ frames[r][n] = DoneFrame
                /\ frames[r][n - 1] = FinalChunkOf(r)
                /\ IF d.content = ""
                   THEN Len(lc) = Len(wf) - 1
                   ELSE /\ Len(lc) = Len(wf)
                        /\ frames[r][n - 2].content = d.content

\* ------------------------------------------------------------ C28
\* What RoutesYaml says of each route, written out: the endpoint of its
\* backend, its native model identifier and its timeout.
RouteExpected ==
    [m \in {"llama3", "llama3-gpu", "mistral"} |->
        IF m = "llama3"
        THEN [endpoint |-> "http://localhost:11434/api/chat", model |-> "llama3:8b",
              timeout |-> 30]
        ELSE IF m = "llama3-gpu"
        THEN [endpoint |-> "http://gpu-1:11500/api/chat", model |-> "llama3:8b",
              timeout |-> 120]
        ELSE [endpoint |-> "http://gpu-1:11434/api/chat", model |-> "mistral:7b",
              timeout |-> 30]]

\* C28: the upstream call of a request that names the configured model m is a
\* single POST to http://<host of m>:<port of m>/api/chat, with m's native
\* identifier in the payload and m's timeout, never another route's, also
\* when two routes share a native identifier; a request that names no
\* configured model makes no call.
C28_RoutedToItsOwnBackend ==
    \A r \in Reqs :
        IF IsChat(r) /\ req[r].model \in DOMAIN RouteExpected /\ upstream_calls[r] > 0
        THEN /\ upstream_calls[r] = 1
             /\ http_stream[r] =
                    Some([method |-> "POST",
                          endpoint |-> RouteExpected[req[r].model].endpoint,
                          timeout |-> RouteExpected[req[r].model].timeout])
             /\ payload[r][1].model = RouteExpected[req[r].model].model
        ELSE upstream_calls[r] = 0 /\ http_stream[r] = None

\* Two concurrent requests for the two routes that share llama3:8b, each sent
\* to its own backend with its own timeout.
C28_Witness ==
    \E r1, r2 \in Reqs :
        /\ req[r1].model = "llama3" /\ upstream_calls[r1] = 1
        /\ http_stream[r1][1].endpoint = "http://localhost:11434/api/chat"
        /\ http_stream[r1][1].timeout = 30
        /\ req[r2].model = "llama3-gpu" /\ upstream_calls[r2] = 1
        /\ http_stream[r2][1].endpoint = "http://gpu-1:11500/api/chat"
        /\ http_stream[r2][1].timeout = 120
        /\ payload[r1][1].model = payload[r2][1].model

\* ------------------------------------------------------------ C29
\* C29: once the caller has disconnected, the stream gets no further frame (no
\* chunk, no inline error frame, no marker) and no completion log event is
\* emitted, and the context of the upstream connection is left: it does not
\* stay open.
C29_DisconnectStopsTheStream ==
    /\ [][\A r \in Reqs :
            cancelled'[r] => /\ frames'[r] = frames[r]
                             /\ completion_logs'[r] = completion_logs[r]]_vars
    /\ \A r \in Reqs : cancelled[r] ~> (connection[r] # "open")

\* The caller left after the first chunks of a stream: the stream holds the
\* chunks and neither an error frame nor the marker, nothing was logged, and
\* the context has been left.
C29_Witness ==
    \E r \in Reqs :
        /\ Streaming(r) /\ cancelled[r]
        /\ Len(frames[r]) = 2 /\ frames[r][2].kind = "chunk"
        /\ frames[r][2].finish_reason = "none"
        /\ completion_logs[r] = <<>>
        /\ connection[r] = "exited"

\* ------------------------------------------------------------ C30
\* The last value of a token counter among the lines, 0 when no line has one.
LastCounted(wf, has(_), count(_)) ==
    LET I == {i \in 1..Len(wf) : has(wf[i])}
    IN  IF I = {} THEN 0
        ELSE count(wf[CHOOSE i \in I : \A j \in I : j <= i])

HasPromptEvalCount(line) == line.data.has_prompt_eval_count
PromptEvalCountOf(line) == line.data.prompt_eval_count
HasEvalCount(line) == line.data.has_eval_count
EvalCountOf(line) == line.data.eval_count

\* What one stream holds when it runs alone: for each well-formed line read,
\* in order, the chunk of that line.
ChunksOfLines(r, wf) ==
    [i \in 1..Len(wf) |->
        [kind |-> "chunk",
         role |-> IF i = 1 THEN "assistant" ELSE "none",
         has_content |-> TRUE,
         content |-> IF i = 1 THEN "" ELSE wf[i].data.content,
         finish_reason |-> IF wf[i].data.done = "true" THEN "stop" ELSE "none",
         message |-> "",
         id |-> "chatcmpl-" \o RequestId(r),
         model |-> req[r].model]]

\* What a step may change of a stream: its frames, its first-chunk flag, its
\* token counters.
StreamState(r) ==
    <<frames[r], first_chunk[r], prompt_tokens[r], completion_tokens[r]>>

\* C30: concurrent requests do not interfere.  The chunks, the first-chunk
\* flag and the token counters of each stream are those its own backend lines
\* give, whatever the other request does; and no step of one request changes
\* the frames, the flag or the counters of the other.
C30_NoInterference ==
    /\ [](\A r \in Reqs :
            /\ Streaming(r) => LineChunks(r) = ChunksOfLines(r, WellFormedLines(r))
            /\ first_chunk[r] = (WellFormedLines(r) = <<>>)
            /\ prompt_tokens[r] =
                    LastCounted(WellFormedLines(r), HasPromptEvalCount, PromptEvalCountOf)
            /\ completion_tokens[r] =
                    LastCounted(WellFormedLines(r), HasEvalCount, EvalCountOf))
    /\ [][\A r1, r2 \in Reqs :
            (r1 # r2 /\ StreamState(r1)' # StreamState(r1))
                => StreamState(r2)' = StreamState(r2)]_vars

\* Two streams in progress at once, fed different lines: one has its two
\* chunks and the counter of its done line, the other has skipped a malformed
\* line, announced the role and counted nothing.
C30_Witness ==
    \E r1, r2 \in Reqs :
        /\ r1 # r2 /\ Streaming(r1) /\ Streaming(r2)
        /\ lines[r1] = <<HeLine, LloDoneLine>> /\ pc[r1] = "yield_chunk"
        /\ Len(frames[r1]) = 2 /\ frames[r1][2].content = "llo"
        /\ ~first_chunk[r1] /\ completion_tokens[r1] = 2
        /\ lines[r2] = <<MalformedLine, HeLine>> /\ pc[r2] = "yield_chunk"
        /\ Len(frames[r2]) = 1 /\ frames[r2][1].role = "assistant"
        /\ ~first_chunk[r2] /\ completion_tokens[r2] = 0

\* ------------------------------------------------------------ C31
\* C31: the completion log event of a stream (status 200) reports as prompt
\* and completion tokens the most recent prompt_eval_count and eval_count among
\* the lines read up to and including the first done=true line, 0 for a counter
\* no line had; a line the backend sends after the first done=true line changes
\* neither the counters nor the event.
C31_StreamUsageInLog ==
    /\ [](\A r \in Reqs :
            Streaming(r) =>
                \A i \in 1..Len(completion_logs[r]) :
                    completion_logs[r][i].status_code = 200 =>
                        /\ completion_logs[r][i].has_tokens
                        /\ completion_logs[r][i].tokens_prompt =
                              LastCounted(WellFormedLines(r), HasPromptEvalCount,
                                          PromptEvalCountOf)
                        /\ completion_logs[r][i].tokens_response =
                              LastCounted(WellFormedLines(r), HasEvalCount,
                                          EvalCountOf))
    /\ [][\A r \in Reqs :
            late'[r] # late[r] =>
                /\ prompt_tokens'[r] = prompt_tokens[r]
                /\ completion_tokens'[r] = completion_tokens[r]
                /\ completion_logs'[r] = completion_logs[r]]_vars

\* A stream whose first line counted 3 and 1 and whose done line counted 2
\* was logged with 3 prompt and 2 completion tokens, and a further done=true
\* line was sent after it.
C31_Witness ==
    \E r \in Reqs :
        /\ Streaming(r) /\ lines[r] = <<CountedLine, LloDoneLine>>
        /\ pc[r] = "done" /\ late[r] = 1
        /\ Len(completion_logs[r]) = 1
        /\ completion_logs[r][1].status_code = 200
        /\ completion_logs[r][1].tokens_prompt = 3
        /\ completion_logs[r][1].tokens_response = 2

\* ------------------------------------------------------------ C32
\* Two requests that agree on everything the backend may see: the model, the
\* stream flag, temperature, max_tokens, and the role and content of each
\* message.  They may differ in top_p, frequency_penalty, presence_penalty,
\* stop, user and the name of a message.
DifferOnlyInUnsentFields(q1, q2) ==
    /\ q1.model = q2.model /\ q1.stream = q2.stream
    /\ q1.params.temperature = q2.params.temperature
    /\ q1.params.max_tokens = q2.params.max_tokens
    /\ Len(q1.messages) = Len(q2.messages)
    /\ \A i \in 1..Len(q1.messages) :
          /\ q1.messages[i].role = q2.messages[i].role
          /\ q1.messages[i].content = q2.messages[i].content

\* C32: of the optional fields only temperature and max_tokens reach the
\* backend: two accepted requests that differ only in top_p,
\* frequency_penalty, presence_penalty, stop, user or a message's name send
\* identical payloads.
C32_UnsentFieldsDoNotReachBackend ==
    \A r1, r2 \in Reqs :
        ( /\ payload[r1] # None /\ payload[r2] # None
          /\ DifferOnlyInUnsentFields(req[r1], req[r2]) )
            => payload[r1] = payload[r2]

\* Two requests that differ in each of the six fields and sent the same
\* payload, which has the temperature they share.
C32_Witness ==
    \E r1, r2 \in Reqs :
        /\ payload[r1] # None /\ payload[r2] # None
        /\ req[r1].params.temperature = Some(5)
        /\ req[r2].params.temperature = Some(5)
        /\ req[r1].params.top_p # req[r2].params.top_p
        /\ req[r1].params.frequency_penalty # req[r2].params.frequency_penalty
        /\ req[r1].params.presence_penalty # req[r2].params.presence_penalty
        /\ req[r1].params.stop # req[r2].params.stop
        /\ req[r1].params.user # req[r2].params.user
        /\ req[r1].messages[1].name # req[r2].messages[1].name
        /\ req[r1].stream = req[r2].stream
        /\ payload[r1] = payload[r2]
        /\ payload[r1][1]["options"] = [temperature |-> 5]

\* ------------------------------------------------------------ C33
\* The characters JSON allows outside a string literal, besides the brackets
\* and the double quote: separators, blanks, and those of numbers and of
\* true, false and null.
JsonBare ==
    {":", ",", " ", "-", ".", "0", "1", "2", "3", "4", "5", "6", "7", "8", "9",
     "t", "r", "u", "e", "f", "a", "l", "s", "n"}

\* One character of a scan of JSON text: string literals are in double quotes,
\* a backslash in one takes the next character with it, brackets balance, and
\* nothing but JsonBare stands outside a string.
JsonStart == [in_string |-> FALSE, escaped |-> FALSE, depth |-> 0, ok |-> TRUE]

JsonStep(st, c) ==
    IF ~st.ok THEN st
    ELSE IF st.escaped THEN [st EXCEPT !.escaped = FALSE]
    ELSE IF st.in_string
    THEN IF c = "\\" THEN [st EXCEPT !.escaped = TRUE]
         ELSE [st EXCEPT !.in_string = (c # "\"")]
    ELSE IF c = "\"" THEN [st EXCEPT !.in_string = TRUE]
    ELSE IF c \in {"{", "["} THEN [st EXCEPT !.depth = @ + 1]
    ELSE IF c \in {"}", "]"}
    THEN IF st.depth > 0 THEN [st EXCEPT !.depth = @ - 1] ELSE [st EXCEPT !.ok = FALSE]
    ELSE [st EXCEPT !.ok = (c \in JsonBare)]

\* The scan of positions lo..hi of t from state st, by halves.
RECURSIVE JsonScan(_, _, _, _)
JsonScan(t, lo, hi, st) ==
    IF lo > hi THEN st
    ELSE IF lo = hi THEN JsonStep(st, SubSeq(t, lo, lo))
    ELSE LET mid == (lo + hi) \div 2
             left == JsonScan(t, lo, mid, st)
         IN  IF left.ok THEN JsonScan(t, mid + 1, hi, left) ELSE left

IsJsonObjectText(t) ==
    /\ Len(t) >= 2
    /\ SubSeq(t, 1, 1) = "{" /\ SubSeq(t, Len(t), Len(t)) = "}"
    /\ LET st == JsonScan(t, 1, Len(t), JsonStart)
       IN  st.ok /\ ~st.in_string /\ st.depth = 0

\* data: <payload>, a blank line after it, the payload [DONE] or a JSON object.
WellFormedFrameText(t) ==
    /\ Len(t) > 8
    /\ SubSeq(t, 1, 6) = "data: "
    /\ SubSeq(t, Len(t) - 1, Len(t)) = "\n\n"
    /\ LET body == SubSeq(t, 7, Len(t) - 2)
       IN  body = "[DONE]" \/ IsJsonObjectText(body)

\* C33: every frame of a streaming response is the text data: <payload>
\* followed by a blank line, where the payload is the literal [DONE] or a
\* JSON-serialised object; the inline error frame as much as a content chunk
\* or the terminal chunk.
C33_FramesAreDataLines ==
    \A r \in Reqs :
        Streaming(r) =>
            \A i \in 1..Len(frames[r]) : WellFormedFrameText(sse_text(frames[r][i]))
====
